---------------------------- MODULE Spec2Model ----------------------------
(***************************************************************************)
(* kext_tools: the helper-partition update engine of 'kextcache -u'        *)
(* (update_boot.c, bound into src/bootfiles.h), the bootcaches staleness   *)
(* oracle and bootstamps (bootcaches.c, src/bootroot.c) and the scoped     *)
(* syscalls the engine mutates the helper with (safecalls.c,               *)
(* src/unnamed/part_000).                                                  *)
(*                                                                         *)
(* One run of updateBoots is a sequential process; pc is its position.     *)
(* Every filesystem operation on the RPS directories (per-file unlink,     *)
(* rmdir, mkdir, per-file copy, rename) is one step, so that the states    *)
(* between two operations are states of the model.  A failing system call  *)
(* is a nondeterministic outcome of its step.                              *)
(***************************************************************************)
EXTENDS Integers, FiniteSets, Sequences, TLC

(* ---- bounds of the model ---- *)
\* number of paths in caches->rpspaths (rpspaths[BootConfigIdx] is Boot.plist)
NRps == 2
\* largest number of Apple_Boot helper partitions of the volume
MaxBoots == 2
\* directories of the filesystems the scoped syscalls work on
NDirs == 3
\* most ancestors of a path that sdeepmkdir finds missing
MaxDepth == 2

(* ---- program constants ---- *)
\* parseDict stores BootConfig right after the AdditionalPaths entries, ahead
\* of the mkext; with no AdditionalPaths it is the first element
BootConfigIdx == 1

RpsIdx == 1..NRps

\* kBootDirR, kBootDirP, kBootDirS
Slots == {"R", "P", "S"}

\* enum bootReversions
nothingSerious      == 0
nukedLabels         == 1
copyingOFBooter     == 2
copyingEFIBooter    == 3
copiedBooters       == 4
activatingOFBooter  == 5
activatingEFIBooter == 6
activatedBooters    == 7

(* ---- the helper partition's filesystem ---- *)
\* A file is "none" (absent), "part" (created, but a write failed before all
\* of its bytes were there) or complete: a generation that was on the helper
\* before the run ("R", "P", "S": the directory it was in; "old" for a
\* booter or label), or "new", written by this run.

\* kRPSDirMask, 0755
kRPSDirMask == 493

NoFiles == [k \in RpsIdx |-> "none"]
NoDir == [exists |-> FALSE, mode |-> 0, files |-> NoFiles]
\* mkdir(child, mode)
MadeDir(mode) == [exists |-> TRUE, mode |-> mode, files |-> NoFiles]
FullDir(tag) ==
    [exists |-> TRUE, mode |-> kRPSDirMask, files |-> [k \in RpsIdx |-> tag]]

\* every RPS path is in the directory, whole
Populated(d) == d.exists /\ \A k \in RpsIdx : d.files[k] \notin {"none", "part"}
IsEmpty(d) == \A k \in RpsIdx : d.files[k] = "none"

\* the helpers a run can meet: any subset of R, P, S, each directory whole;
\* with or without a booter, a label and a bless from an earlier update
HelperInits ==
    { [rps |-> [s \in Slots |-> IF s \in have THEN FullDir(s) ELSE NoDir],
       efi |-> IF used THEN "old" ELSE "none",
       efiOld |-> "none",
       blessed |-> IF used THEN "old" ELSE "none",
       label |-> IF used THEN "old" ELSE "none",
       labelNew |-> FALSE] :
      have \in SUBSET Slots, used \in BOOLEAN }

\* a helper before any is mounted
NoHelper ==
    [rps |-> [s \in Slots |-> NoDir], efi |-> "none", efiOld |-> "none",
     blessed |-> "none", label |-> "none", labelNew |-> FALSE]

(* ---- FindRPSDir ---- *)
\* FindRPSDir with the R+S case read as "the later of the two is current",
\* the wrap-around from S to R forgotten
C7_FindRPSDirNoWrap(rps) ==
    LET haveR == rps["R"].exists
        haveP == rps["P"].exists
        haveS == rps["S"].exists
    IN  IF haveR /\ haveP /\ haveS THEN [cur |-> "R", next |-> "P", prev |-> "S"]
        ELSE IF haveR /\ haveP     THEN [cur |-> "P", next |-> "S", prev |-> "R"]
        ELSE IF haveR /\ haveS     THEN [cur |-> "S", next |-> "R", prev |-> "P"]
        ELSE IF haveP /\ haveS     THEN [cur |-> "S", next |-> "R", prev |-> "P"]
        ELSE IF haveR              THEN [cur |-> "R", next |-> "P", prev |-> "S"]
        ELSE IF haveP              THEN [cur |-> "P", next |-> "S", prev |-> "R"]
        ELSE IF haveS              THEN [cur |-> "S", next |-> "R", prev |-> "P"]
        ELSE                            [cur |-> "R", next |-> "P", prev |-> "S"]

\* FindRPSDir with the default case (no directory) starting the cycle at S
C10_FindRPSDirDefaultS(rps) ==
    LET haveR == rps["R"].exists
        haveP == rps["P"].exists
        haveS == rps["S"].exists
    IN  IF haveR /\ haveP /\ haveS THEN [cur |-> "R", next |-> "P", prev |-> "S"]
        ELSE IF haveR /\ haveP     THEN [cur |-> "P", next |-> "S", prev |-> "R"]
        ELSE IF haveR /\ haveS     THEN [cur |-> "R", next |-> "P", prev |-> "S"]
        ELSE IF haveP /\ haveS     THEN [cur |-> "S", next |-> "R", prev |-> "P"]
        ELSE IF haveR              THEN [cur |-> "R", next |-> "P", prev |-> "S"]
        ELSE IF haveP              THEN [cur |-> "P", next |-> "S", prev |-> "R"]
        ELSE IF haveS              THEN [cur |-> "S", next |-> "R", prev |-> "P"]
        ELSE                            [cur |-> "S", next |-> "R", prev |-> "P"]

\* stat() of the three directories, then the eight cases
FindRPSDir(rps) ==
    LET haveR == rps["R"].exists
        haveP == rps["P"].exists
        haveS == rps["S"].exists
    IN  IF haveR /\ haveP /\ haveS THEN [cur |-> "R", next |-> "P", prev |-> "S"]
        ELSE IF haveR /\ haveP     THEN [cur |-> "P", next |-> "S", prev |-> "R"]
        ELSE IF haveR /\ haveS     THEN [cur |-> "R", next |-> "P", prev |-> "S"]
        ELSE IF haveP /\ haveS     THEN [cur |-> "S", next |-> "R", prev |-> "P"]
        ELSE IF haveR              THEN [cur |-> "R", next |-> "P", prev |-> "S"]
        ELSE IF haveP              THEN [cur |-> "P", next |-> "S", prev |-> "R"]
        ELSE IF haveS              THEN [cur |-> "S", next |-> "R", prev |-> "P"]
        ELSE                            [cur |-> "R", next |-> "P", prev |-> "S"]


(* ---- the host volume: cached paths, sources and bootstamps ---- *)
\* needUpdates and applyStamps walk rpspaths, then efibooter (ofbooter is
\* never filled in by parseDict), then miscpaths (the label)
EfiPath == NRps + 1
LabelPath == NRps + 2
CPaths == 1..(NRps + 2)

\* struct stat of a file, as far as the program reads it
NoFile == [exists |-> FALSE, sec |-> 0, nsec |-> 0]
FileAt(sec, nsec) == [exists |-> TRUE, sec |-> sec, nsec |-> nsec]

\* needsUpdate's comparison of the bootstamp with the source: the second
\* operand of || compares the bootstamp's tv_nsec with itself
StampDiffers(tsb, rsb) == tsb.sec # rsb.sec \/ tsb.nsec # tsb.nsec

\* needsUpdate: [err, ood]; *outofdate is not written when the source is
\* missing, so the caller's needsUp keeps its earlier value
needsUpdate(rsb, tsb, needsUp) ==
    IF ~rsb.exists THEN [err |-> FALSE, ood |-> needsUp]
    ELSE IF tsb.exists THEN [err |-> FALSE, ood |-> StampDiffers(tsb, rsb)]
    ELSE [err |-> FALSE, ood |-> TRUE]

\* the timestamps needsUpdate captures into cpath->tstamps[1] (a timeval:
\* microseconds); calloc'ed zero while the source is missing
Captured(rsb) ==
    IF rsb.exists THEN [sec |-> rsb.sec, usec |-> rsb.nsec \div 1000]
    ELSE [sec |-> 0, usec |-> 0]

\* needUpdates: needsUp is a local without initializer (uninit is what it
\* holds); every path is examined, in order
needUpdates(srcs, stamps, uninit) ==
    LET needsUp[p \in 0..(NRps + 2)] ==
            IF p = 0 THEN uninit
            ELSE needsUpdate(srcs[p], stamps[p], needsUp[p - 1]).ood
        rpsOOD == \E p \in RpsIdx : needsUp[p]
        bootersOOD == needsUp[EfiPath]
        miscOOD == needsUp[LabelPath]
    IN  [any |-> rpsOOD \/ bootersOOD \/ miscOOD,
         rps |-> rpsOOD, booters |-> bootersOOD, misc |-> miscOOD]

(* ---- state ---- *)
VARIABLES
    pc,          \* position of updateBoots
    force,       \* updateBoots' argument
    bootcount,   \* CFArrayGetCount(up.boots)
    src,         \* host: stat of <root>/<rpath>, per cached path
    stamp,       \* host: stat of <root>/<tspath>, per cached path
    tstamps,     \* cpath->tstamps[1], per cached path
    up,          \* struct updatingVol
    i,           \* loop index of updateBoots
    bootupdates, \* helpers updated successfully
    rval,        \* updateBoots' return value: 0, or 1 for any non-zero
    helper,      \* filesystem of the helper being updated
    pre,         \* helper as it was when this helper's update started
    du,          \* sdeepunlink in progress: directory, position, error
    k,           \* ucopyRPS' loop index
    trace,       \* history of the current helper's update and of the run
    cwd,         \* safecalls: the process's working directory
    entries,     \* safecalls: the names in each directory
    sp,          \* safecalls: the frame of the primitive in progress
    job,         \* safecalls: the frame of its caller
    sFsysWatchDict,  \* watchvol: bsdName -> struct watchedVol
    sRebootLock, \* watchvol: the port holding the reboot lock, or NULL
    last,        \* watchvol: the handler that ran last, and what it found
    burst        \* watchvol: the burst of change notifications under watch

updaterVars == <<pc, force, bootcount, src, stamp, tstamps, up, i, bootupdates,
                 rval, helper, pre, du, k, trace>>
safeVars == <<cwd, entries, sp, job>>
watchVars == <<sFsysWatchDict, sRebootLock, last, burst>>
vars == <<updaterVars, safeVars, watchVars>>

(* ---- safecalls.c: directories, devices, frames ---- *)
DirIds == 1..NDirs
\* the base names a path can end in
Names == {"a", "b"}

\* st_dev of a directory: directory 1 is alone on its device, the others
\* share devices two by two
st_dev(d) == d \div 2

\* a primitive's frame. parent: "." (dirname is the working directory) or
\* "p" (dirname is a path the kernel resolves when asked). dirfd, savedir,
\* checked, mutated: a directory, or 0 for none. ret: "err" is non-zero
NoCall ==
    [op |-> "none", at |-> "idle", scope |-> 0, parent |-> ".",
     child |-> "a", newname |-> "a", flags |-> "rdonly",
     dirfd |-> 0, savedir |-> 0,
     checked |-> 0,         \* directory spolicy accepted in this call
     mismatch |-> FALSE,    \* spolicy found st_dev differing in this call
     mutated |-> 0,         \* directory this call changed
     mutName |-> "a",       \* name this call changed there
     ret |-> "err"]

\* the frame of sdeepunlink, sdeepmkdir or scopyfile, or of a client that
\* calls one primitive ("prim")
NoJob ==
    [name |-> "none", at |-> "idle", scope |-> 0, srcscope |-> 0,
     child |-> "a", root |-> 0, home |-> 0, visited |-> {}, depth |-> 0,
     rval |-> "ok"]

NoDu == [dir |-> "R", k |-> 0, err |-> FALSE, ret |-> "none"]

NoTrace ==
    [ok |-> FALSE,         \* this helper reached bootupdates++
     failedIn |-> "none",  \* the step that sent this helper to bootfail
     staged |-> "none",    \* directory ucopyRPS staged into
     stagedOK |-> FALSE,   \* ucopyRPS returned 0
     renamed |-> FALSE,    \* activateRPS' rename took place
     nuked |-> "none",     \* directory nukeFallbacks deep-unlinked
     untidy |-> FALSE,     \* nukeFallbacks returned non-zero
     stamp0 |-> <<>>,      \* the bootstamps when the run began
     anyFailed |-> FALSE,  \* some helper of this run failed
     looped |-> FALSE,     \* the run entered the helper loop
     applied |-> FALSE,    \* applyStamps was called
     revertedFrom |-> nothingSerious,  \* changestate as revertState found it
     checked |-> [path |-> 0, before |-> FALSE, ood |-> FALSE],
                           \* needsUpdate's last call: the path, the caller's
                           \* needsUp before and after
     assessed |-> [any |-> FALSE, rps |-> FALSE, booters |-> FALSE,
                   misc |-> FALSE],  \* what needUpdates reported last
     run |-> 1,            \* the run of updateBoots on this volume: 1, 2
     touched |-> {},       \* sources modified since needUpdates examined them
     mkext |-> [has |-> FALSE, fits |-> FALSE, exts |-> NoFile,
                sb |-> NoFile, needsrebuild |-> FALSE, crashed |-> FALSE],
     bcDict |-> [top |-> {}, pre |-> {}, booters |-> {}, post |-> {},
                 mk |-> {}],   \* bootcaches.plist: the keys of each dictionary
     caches |-> FALSE,     \* parseDict returned a struct bootCaches
     deep |-> [at |-> "idle", level |-> 0, ret |-> "none", errno |-> "none",
               kinds |-> <<>>, kinds0 |-> <<>>, raced |-> FALSE],
     fds |-> [at |-> "idle", op |-> "none", cwd0 |-> 0, failed |-> "none",
              dirOpened |-> FALSE, dirCloses |-> 0,
              saveOpened |-> FALSE, saveCloses |-> 0, savedir |-> FALSE],
     boot |-> [at |-> "idle", n |-> 0, i |-> 0, curBoot |-> FALSE,
               curMount |-> FALSE, fd |-> "none", closes |-> 0,
               mounted |-> {}, retried |-> FALSE, updated |-> 0],
                           \* updateBoots' helper loop as diskarb and the
                           \* descriptor table see it: up.curBoot, whether
                           \* up.curMount is set, up.curbootfd (-1, open, or
                           \* the number of a closed descriptor), how often
                           \* that number was closed since it was opened,
                           \* the helpers this run mounted and has not
                           \* unmounted, bootupdates
     gone |-> [ports |-> {}, stale |-> {}, reused |-> {}, queued |-> {}],
                           \* per volume: the clients whose CFMachPort has
                           \* the volume's watchedVol as its info; those
                           \* whose CFMachPort has a destroyed watchedVol of
                           \* the volume as its info; whether the present
                           \* watchedVol lies at a destroyed one's address;
                           \* whether a notification of a destroyed
                           \* watchedVol is still queued
     vlock |-> [at |-> "idle", held |-> FALSE, n |-> 0, i |-> 0,
                updated |-> 0, rval |-> 0, puts |-> <<>>, built |-> "none",
                unlocked |-> FALSE, stamped |-> FALSE],
                           \* updateBoots and the volume lock: where the run
                           \* is, whether it holds the lock, the helpers,
                           \* the statuses given to putVolumeForPath, whether
                           \* the mkext builder ran with the lock held, and
                           \* whether a helper or a bootstamp was written
                           \* without the lock
     cr |-> [at |-> "idle",
             vol |-> [watched |-> FALSE, delayer |-> {}, lock |-> "NULL",
                      errcount |-> 0, disableOwners |-> FALSE],
             mkext |-> FALSE, forks |-> FALSE,
             binfo |-> FALSE, hasBoots |-> FALSE, isGPT |-> FALSE,
             need |-> "fresh", stale |-> FALSE, children |-> {},
             launched |-> FALSE],
                           \* one call of check_rebuild: the watchedVol it
                           \* was given; what check_mkext says; whether fork
                           \* succeeds; whether bless describes the volume,
                           \* with auxiliary and with system partitions; how
                           \* needUpdates ends; whether some cached path is
                           \* out of date; the children launched; the result
     orphans |-> {}]       \* volumes whose watchedVol was destroyed with
                           \* its settle timer still in the run loop
                           \* a primitive's descriptors: where it is, the
                           \* working directory at the call, the step that
                           \* failed, dirfd and the saved-directory fd (was
                           \* it opened, how often closed), and whether the
                           \* primitive's savedir is not -1
                           \* sdeepmkdir on a path: the recursion level, the
                           \* return value, what the path's components are
                           \* and what they were at the call, whether
                           \* another process wrote to the path meanwhile
                           \* check_mkext's last call: caches->mkext set,
                           \* the paths fit PATH_MAX, stat of Extensions and
                           \* of the mkext, the answer

\* Sources of the RPS files and of the booter exist; the label's may not.
\* A bootstamp is missing or carries its source's time; the bootstamps of the
\* RPS paths are alike. A forced run is one that finds every bootstamp fresh.
SrcTime == FileAt(1, 0)

HostStamps ==
    { [p \in CPaths |-> IF p \in RpsIdx THEN sr
                        ELSE IF p = EfiPath THEN se ELSE sl] :
      sr \in {NoFile, SrcTime}, se \in {NoFile, SrcTime},
      sl \in {NoFile, SrcTime} }

(* ---- watchvol.c: volumes, clients, struct watchedVol ---- *)
\* the volumes diskarb can report, by bsdName, and the ports of the clients
Vols == {"disk0s2", "disk1s2"}
Clients == {"port1", "port2"}
NULL == "NULL"

\* struct watchedVol as calloc leaves it (create_watchedVol). delayer: the
\* settle timer, if one is pending, as the seconds left before its fire
\* date; watched: the volume is a value of sFsysWatchDict
NewVol ==
    [watched |-> TRUE, delayer |-> {}, lock |-> NULL, errcount |-> 0,
     disableOwners |-> FALSE]

\* no entry under this bsdName
NoVol == [NewVol EXCEPT !.watched = FALSE]

NoLast ==
    [op |-> "none",        \* the handler
     vol |-> "none",       \* the volume it was called for
     client |-> NULL,      \* the port it was called with
     uid |-> 0,            \* gClientUID when it was called
     status |-> 0,         \* exit status handed to _kextmanager_unlock_volume
     kr |-> "none",        \* the handler's kern_return_t
     result |-> "none",    \* *busyStatus, *lockstatus
     w0 |-> NoVol,         \* the volume's watchedVol as the handler found it
     reboot |-> NULL,      \* sRebootLock as the handler found it
     locked |-> {},        \* the volumes it found locked
     launched |-> {},      \* volumes check_rebuild launched a rebuild for
     scanned |-> {},       \* volumes check_locked called check_rebuild for
     skipped |-> {}]       \* volumes check_locked passed over as given up

\* a burst of change notifications of one volume: it begins with a
\* notification that comes kWatchSettleTime or more after the previous one
NoBurst ==
    [vol |-> "none",
     n |-> 0,          \* notifications in the burst: 0, 1, 2 for two or more
     since |-> 0,      \* seconds since the last one, up to kWatchSettleTime + 1
     calls |-> 0,      \* check_rebuild calls since the burst began: 0, 1, 2+
     early |-> FALSE,  \* one of them was not check_now at kWatchSettleTime
     missed |-> FALSE, \* the burst before this one got no check_rebuild
     other |-> FALSE]  \* the timer was not left to itself in this burst

\* kextd before diskarb has reported any volume
WatchIdle ==
    /\ sFsysWatchDict = [v \in Vols |-> NoVol]
    /\ sRebootLock = NULL
    /\ last = NoLast
    /\ burst = NoBurst

Init ==
    /\ pc = "updateBoots"
    /\ force \in BOOLEAN
    /\ bootcount \in 0..MaxBoots
    /\ \E lab \in {NoFile, SrcTime} :
           src = [p \in CPaths |-> IF p = LabelPath THEN lab ELSE SrcTime]
    /\ stamp \in HostStamps
    /\ force => \A p \in CPaths : stamp[p] = SrcTime
    /\ tstamps = [p \in CPaths |-> Captured(NoFile)]
    /\ up = [curBoot |-> FALSE, curRPS |-> "", changestate |-> nothingSerious,
             doRPS |-> FALSE, doMisc |-> FALSE, doBooters |-> FALSE,
             efidstOld |-> FALSE]
    /\ i = 0
    /\ bootupdates = 0
    /\ rval = 0
    /\ helper = NoHelper
    /\ pre = NoHelper
    /\ du = NoDu
    /\ k = 0
    /\ trace = NoTrace
    /\ cwd = 1
    /\ entries = [d \in DirIds |-> {}]
    /\ sp = NoCall
    /\ job = NoJob
    /\ WatchIdle

(* ---- updateBoots, up to the helper loop ---- *)
\* lines 189-236: rval starts non-zero; a step that fails (the lock, bless,
\* needUpdates, DiskArb) ends the run; no helper -> 0; nothing stale and no
\* force -> 0; force sets all three do* flags
UpdateBoots_analyze ==
    /\ pc = "updateBoots"
    /\ UNCHANGED <<safeVars, watchVars, force, bootcount, src, stamp, i, bootupdates,
                   helper, pre, du, k>>
    /\ \/ /\ rval' = 1 /\ pc' = "done"
          /\ UNCHANGED <<tstamps, up, trace>>
       \/ IF bootcount = 0
          THEN /\ rval' = 0 /\ pc' = "done"
               /\ UNCHANGED <<tstamps, up, trace>>
          ELSE \E uninit \in BOOLEAN :
               LET nu == needUpdates(src, stamp, uninit)
               IN  /\ tstamps' = [p \in CPaths |-> Captured(src[p])]
                   /\ IF ~nu.any /\ ~force
                      THEN /\ rval' = 0 /\ pc' = "done"
                           /\ UNCHANGED <<up, trace>>
                      ELSE /\ up' = [up EXCEPT !.doRPS = force \/ nu.rps,
                                               !.doBooters = force \/ nu.booters,
                                               !.doMisc = force \/ nu.misc]
                           /\ rval' = 1
                           /\ trace' = [trace EXCEPT !.looped = TRUE,
                                                      !.stamp0 = stamp]
                           /\ pc' = "mountBoot"


(* ---- the helper loop of updateBoots (lines 238-272) ---- *)
\* goto bootfail out of step `step`
BootFail(step) ==
    /\ pc' = "revertState"
    /\ trace' = [trace EXCEPT !.failedIn = step]

Host == <<force, bootcount, src, stamp, tstamps>>

AfterUcopyRPS == IF up.doMisc THEN "ucopyMisc" ELSE "nukeLabels"
AfterMount == IF up.doRPS THEN "ucopyRPS" ELSE AfterUcopyRPS
AfterBooters == IF up.doRPS THEN "activateRPS" ELSE "activateMisc"
\* nukeLabels followed by the activation of the RPS directory
C35_SkipBooters == AfterBooters

\* lines 246-251: the booters, if they are out of date, come next
AfterNukeLabels == IF up.doBooters THEN "ucopyBooters" ELSE AfterBooters

\* mountBoot: the helper's contents are whatever is on that partition; a
\* failed mount leaves up->curBoot NULL (mountBoot unmounts what it mounted)
MountBoot ==
    /\ pc = "mountBoot"
    /\ UNCHANGED <<safeVars, watchVars, Host, i, bootupdates, rval, du, k>>
    /\ \E h \in HelperInits :
        /\ helper' = h
        /\ pre' = h
        /\ \/ /\ up' = [up EXCEPT !.changestate = nothingSerious,
                                  !.curBoot = TRUE, !.efidstOld = FALSE]
              /\ pc' = AfterMount
              /\ trace' = [NoTrace EXCEPT !.anyFailed = trace.anyFailed,
                                          !.looped = TRUE,
                                          !.stamp0 = trace.stamp0]
           \/ /\ up' = [up EXCEPT !.changestate = nothingSerious,
                                  !.curBoot = FALSE, !.efidstOld = FALSE]
              /\ pc' = "revertState"
              /\ trace' = [NoTrace EXCEPT !.anyFailed = trace.anyFailed,
                                          !.looped = TRUE,
                                          !.stamp0 = trace.stamp0,
                                          !.failedIn = "mountBoot"]

(* ---- ucopyRPS ---- *)
\* ucopyRPS staging into the directory FindRPSDir calls current
C5_StageIntoCurrent(rps) == FindRPSDir(rps).cur

\* ucopyRPS staging into the directory FindRPSDir calls next
C6_StageIntoNext(rps) == FindRPSDir(rps).next

\* FindRPSDir(up, up->curRPS, discard, discard): up->curRPS receives
\* FindRPSDir's first result, prev
StagingSlot(rps) == FindRPSDir(rps).prev

\* lines 653-658: choose the directory; erase it if present
UcopyRPS_find ==
    /\ pc = "ucopyRPS"
    /\ UNCHANGED <<safeVars, watchVars, Host, i, bootupdates, rval, helper, pre, k>>
    /\ LET d == StagingSlot(helper.rps)
       IN  /\ up' = [up EXCEPT !.curRPS = d]
           /\ trace' = [trace EXCEPT !.staged = d]
           /\ IF helper.rps[d].exists
              THEN /\ du' = [dir |-> d, k |-> 1, err |-> FALSE,
                             ret |-> "ucopyRPS"]
                   /\ pc' = "sdeepunlink"
              ELSE /\ du' = du
                   /\ pc' = "smkdir"

\* sdeepunlink, one FTS entry at a time: sunlink of a file; errors accumulate
\* and the walk goes on
Sdeepunlink_file ==
    /\ pc = "sdeepunlink"
    /\ du.k \in RpsIdx
    /\ UNCHANGED <<safeVars, watchVars, Host, up, i, bootupdates, rval, pre, k, trace, pc>>
    /\ IF helper.rps[du.dir].files[du.k] = "none"
       THEN /\ helper' = helper
            /\ du' = [du EXCEPT !.k = du.k + 1]
       ELSE \/ /\ helper' = [helper EXCEPT !.rps[du.dir].files[du.k] = "none"]
               /\ du' = [du EXCEPT !.k = du.k + 1]
            \/ /\ helper' = helper
               /\ du' = [du EXCEPT !.k = du.k + 1, !.err = TRUE]

\* where sdeepunlink's caller goes on
AfterDeepUnlink(ret, err) ==
    IF ret = "ucopyRPS" THEN (IF err THEN "revertState" ELSE "smkdir")
    ELSE "unmountBoot"

\* sdeepunlink, FTS_DP: srmdir of the directory (ENOTEMPTY if a file stayed)
Sdeepunlink_rmdir ==
    /\ pc = "sdeepunlink"
    /\ du.k = NRps + 1
    /\ UNCHANGED <<safeVars, watchVars, Host, up, i, bootupdates, rval, pre, k>>
    /\ \E ok \in BOOLEAN :
        LET removed == ok /\ IsEmpty(helper.rps[du.dir])
            err == du.err \/ ~removed
        IN  /\ helper' = IF removed THEN [helper EXCEPT !.rps[du.dir] = NoDir]
                         ELSE helper
            /\ du' = NoDu
            /\ pc' = AfterDeepUnlink(du.ret, err)
            /\ trace' = IF ~err THEN trace
                        ELSE IF du.ret = "ucopyRPS"
                        THEN [trace EXCEPT !.failedIn = "ucopyRPS"]
                        ELSE [trace EXCEPT !.untidy = TRUE]

\* line 661: smkdir(up->curbootfd, up->curRPS, kRPSDirMask)
UcopyRPS_mkdir ==
    /\ pc = "smkdir"
    /\ UNCHANGED <<safeVars, watchVars, Host, up, i, bootupdates, rval, pre, du>>
    /\ \/ /\ ~helper.rps[up.curRPS].exists
          /\ helper' = [helper EXCEPT !.rps[up.curRPS] = MadeDir(kRPSDirMask)]
          /\ k' = 1
          /\ pc' = "ucopyRPS_copy"
          /\ trace' = trace
       \/ /\ UNCHANGED <<helper, k>>
          /\ BootFail("ucopyRPS")

\* what a failed copy of one file leaves at the destination: nothing, or
\* a file that is not whole
FailedCopy == {"none", "part"}

\* lines 671-675: a failure of insertUUID is logged and the loop continues
ConfigFailureIsFatal == FALSE

\* lines 664-688, one path per step: insertUUID for Boot.plist, scopyfile
\* (after the zero-size check) for the others
UcopyRPS_copy ==
    /\ pc = "ucopyRPS_copy"
    /\ k \in RpsIdx
    /\ UNCHANGED <<safeVars, watchVars, Host, up, i, bootupdates, rval, pre, du>>
    /\ LET done == IF k = NRps THEN AfterUcopyRPS ELSE "ucopyRPS_copy"
           go == /\ k' = k + 1
                 /\ pc' = done
                 /\ trace' = IF k = NRps THEN [trace EXCEPT !.stagedOK = TRUE]
                             ELSE trace
       IN  \/ /\ helper' = [helper EXCEPT !.rps[up.curRPS].files[k] = "new"]
              /\ go
           \/ \E f \in FailedCopy :
                /\ helper' = [helper EXCEPT !.rps[up.curRPS].files[k] = f]
                /\ IF k = BootConfigIdx /\ ~ConfigFailureIsFatal
                   THEN go
                   ELSE k' = k /\ BootFail("ucopyRPS")


(* ---- ucopyMisc, nukeLabels ---- *)
\* ucopyMisc: the label is copied to <label>.new if the host has one; a
\* failed copy is logged, and updateBoots ignores the result
UcopyMisc ==
    /\ pc = "ucopyMisc"
    /\ UNCHANGED <<safeVars, watchVars, Host, up, i, bootupdates, rval, pre, du, k, trace>>
    /\ pc' = "nukeLabels"
    /\ IF src[LabelPath].exists
       THEN \E copied \in BOOLEAN :
                helper' = [helper EXCEPT !.labelNew = copied \/ helper.labelNew]
       ELSE helper' = helper

\* nukeLabels: sunlink of the label and of its .contentDetails, if present;
\* changestate = nukedLabels whatever the unlinks returned
NukeLabels ==
    /\ pc = "nukeLabels"
    /\ UNCHANGED <<safeVars, watchVars, Host, i, bootupdates, rval, pre, du, k>>
    /\ up' = [up EXCEPT !.changestate = nukedLabels]
    /\ \/ /\ helper' = [helper EXCEPT !.label = "none"]
          /\ pc' = AfterNukeLabels
          /\ trace' = trace
       \/ /\ helper.label # "none"
          /\ \E gone \in BOOLEAN :
                helper' = IF gone THEN [helper EXCEPT !.label = "none"]
                          ELSE helper
          /\ BootFail("nukeLabels")

(* ---- ucopyBooters, activateBooters ---- *)
\* ucopyBooters, EFI booter only (parseDict never sets ofbooter): unlink the
\* .old, rename the booter to .old (a missing booter is tolerated), copy
UcopyBooters ==
    /\ pc = "ucopyBooters"
    /\ UNCHANGED <<safeVars, watchVars, Host, i, bootupdates, rval, pre, du, k>>
    /\ \E unlinked \in BOOLEAN :
        LET old0 == IF unlinked THEN "none" ELSE helper.efiOld
        IN  \/ \* srename fails, and not with ENOENT
               /\ helper.efi # "none"
               /\ helper' = [helper EXCEPT !.efiOld = old0]
               /\ up' = [up EXCEPT !.changestate = copyingEFIBooter,
                                   !.efidstOld = FALSE]
               /\ BootFail("ucopyBooters")
            \/ \* renamed (or nothing to rename), then scopyfile
               LET old1 == IF helper.efi # "none" THEN helper.efi ELSE old0
               IN  \/ /\ helper' = [helper EXCEPT !.efiOld = old1,
                                                  !.efi = "new"]
                      /\ up' = [up EXCEPT !.changestate = copiedBooters,
                                          !.efidstOld = FALSE]
                      /\ pc' = "activateBooters"
                      /\ trace' = trace
                   \/ \E f \in FailedCopy :
                      /\ helper' = [helper EXCEPT !.efiOld = old1, !.efi = f]
                      /\ up' = [up EXCEPT !.changestate = copyingEFIBooter,
                                          !.efidstOld = FALSE]
                      /\ BootFail("ucopyBooters")

\* the file up->efidst names
EfiDst(h, u) == IF u.efidstOld THEN h.efiOld ELSE h.efi

\* activateBooters on up->efidst: sync the booter, then bless it with
\* BLSetVolumeFinderInfo. Result: [helper, changestate, ok], one per outcome
ActivateBootersOutcomes(h, u) ==
    {[helper |-> h, changestate |-> activatingEFIBooter, ok |-> FALSE]} \cup
    (IF EfiDst(h, u) = "none" THEN {}
     ELSE {[helper |-> [h EXCEPT !.blessed = EfiDst(h, u)],
            changestate |-> activatedBooters, ok |-> TRUE]})

ActivateBooters ==
    /\ pc = "activateBooters"
    /\ UNCHANGED <<safeVars, watchVars, Host, i, bootupdates, rval, pre, du, k>>
    /\ \E o \in ActivateBootersOutcomes(helper, up) :
        /\ helper' = o.helper
        /\ up' = [up EXCEPT !.changestate = o.changestate]
        /\ IF o.ok THEN pc' = AfterBooters /\ trace' = trace
           ELSE BootFail("activateBooters")

(* ---- activateRPS ---- *)
\* rename(2) of a directory onto newname: oldname must exist, and newname,
\* if it exists, must be an empty directory
CanRename(rps, old, new) ==
    rps[old].exists /\ (rps[new].exists => IsEmpty(rps[new]))

Renamed(rps, old, new) == [rps EXCEPT ![new] = rps[old], ![old] = NoDir]

\* lines 898-904: if FindRPSDir's current is not the directory just
\* populated, srename(prev, next)
ActivateRPS_rename ==
    /\ pc = "activateRPS"
    /\ UNCHANGED <<safeVars, watchVars, Host, up, i, bootupdates, rval, pre, du, k>>
    /\ LET f == FindRPSDir(helper.rps)
       IN  IF f.cur # up.curRPS
           THEN \/ /\ CanRename(helper.rps, f.prev, f.next)
                   /\ helper' = [helper EXCEPT
                                   !.rps = Renamed(helper.rps, f.prev, f.next)]
                   /\ trace' = [trace EXCEPT !.renamed = TRUE]
                   /\ pc' = "activateRPS_fsync"
                \/ /\ helper' = helper
                   /\ BootFail("activateRPS")
           ELSE /\ helper' = helper
                /\ trace' = trace
                /\ pc' = "activateRPS_fsync"

\* line 907: fcntl(up->curbootfd, F_FULLFSYNC)
ActivateRPS_fsync ==
    /\ pc = "activateRPS_fsync"
    /\ UNCHANGED <<safeVars, watchVars, Host, up, i, bootupdates, rval, helper, pre, du, k>>
    /\ \/ pc' = "activateMisc" /\ trace' = trace
       \/ BootFail("activateRPS")

(* ---- activateMisc ---- *)
\* activateMisc(up, bidx): rename <label>.new into place when doMisc, then
\* unlink the label and write a fresh one with writeLabels, then set the
\* label's type/creator. Result: [helper, ok], one per outcome
ActivateMiscOutcomes(h, doMisc) ==
    LET renames ==
            IF doMisc /\ h.labelNew
            THEN {[h |-> [h EXCEPT !.label = "new", !.labelNew = FALSE],
                   ok |-> TRUE],
                  [h |-> h, ok |-> FALSE]}
            ELSE {[h |-> h, ok |-> TRUE]}
    IN  UNION { {[helper |-> [r.h EXCEPT !.label = "new"], ok |-> r.ok],
                 [helper |-> [r.h EXCEPT !.label = "new"], ok |-> FALSE],
                 [helper |-> [r.h EXCEPT !.label = "none"], ok |-> FALSE]}
                : r \in renames }

\* lines 253-256: activateMisc, then changestate = nothingSerious and
\* bootupdates++
ActivateMisc ==
    /\ pc = "activateMisc"
    /\ UNCHANGED <<safeVars, watchVars, Host, i, rval, pre, du, k>>
    /\ \E o \in ActivateMiscOutcomes(helper, up.doMisc) :
        /\ helper' = o.helper
        /\ IF o.ok
           THEN /\ up' = [up EXCEPT !.changestate = nothingSerious]
                /\ bootupdates' = bootupdates + 1
                /\ trace' = [trace EXCEPT !.ok = TRUE]
                /\ pc' = "revertState"
           ELSE /\ UNCHANGED <<up, bootupdates>>
                /\ BootFail("activateMisc")


(* ---- revertState ---- *)
\* case copyingEFIBooter and the cases that fall into it: sunlink of the
\* booter (result ignored), then srename of <booter>.old over it
RevertBooter(h, unlinked, renamed) ==
    LET h1 == IF unlinked THEN [h EXCEPT !.efi = "none"] ELSE h
    IN  IF renamed /\ h1.efiOld # "none"
        THEN [h1 EXCEPT !.efi = h1.efiOld, !.efiOld = "none"]
        ELSE h1

\* revertState: the switch on up->changestate, each case falling into the
\* next. Result: [helper, changestate, efidstOld], one per outcome
RevertOutcomes(h, u) ==
    LET blessOld ==
            IF u.changestate = activatedBooters
            THEN {[helper |-> o.helper, changestate |-> o.changestate,
                   efidstOld |-> TRUE] :
                  o \in ActivateBootersOutcomes(h, [u EXCEPT !.efidstOld = TRUE])}
            ELSE {[helper |-> h, changestate |-> u.changestate,
                   efidstOld |-> u.efidstOld]}
        booters ==
            IF u.changestate >= copyingEFIBooter
            THEN {[r EXCEPT !.helper = RevertBooter(r.helper, ul, rn)] :
                  r \in blessOld, ul \in BOOLEAN, rn \in BOOLEAN}
            ELSE blessOld
    IN  IF u.changestate >= nukedLabels
        THEN UNION { {[r EXCEPT !.helper = o.helper] :
                      o \in ActivateMiscOutcomes(r.helper, FALSE)} :
                     r \in booters }
        ELSE booters

RevertState ==
    /\ pc = "revertState"
    /\ UNCHANGED <<safeVars, watchVars, Host, i, bootupdates, rval, pre, du, k>>
    /\ trace' = [trace EXCEPT !.revertedFrom = up.changestate]
    /\ \E r \in RevertOutcomes(helper, up) :
        /\ helper' = r.helper
        /\ up' = [up EXCEPT !.changestate = r.changestate,
                            !.efidstOld = r.efidstOld]
    /\ pc' = "nukeFallbacks"

(* ---- nukeFallbacks, unmountBoot ---- *)
\* nukeFallbacks deleting the directory FindRPSDir calls next
C8_NukeNext(rps) == FindRPSDir(rps).next

\* nukeFallbacks deleting the directory FindRPSDir calls current
C9_NukeCurrent(rps) == FindRPSDir(rps).cur

\* FindRPSDir(up, delpath, toss, toss): the directory nukeFallbacks deletes
FallbackSlot(rps) == FindRPSDir(rps).prev

\* nukeFallbacks: nothing if the mount failed; unlink <booter>.old if
\* doBooters; sdeepunlink of FindRPSDir's prev if doRPS (ENOENT is fine)
NukeFallbacks ==
    /\ pc = "nukeFallbacks"
    /\ UNCHANGED <<safeVars, watchVars, Host, up, i, bootupdates, rval, pre, k>>
    /\ IF ~up.curBoot
       THEN /\ UNCHANGED <<helper, du, trace>>
            /\ pc' = "unmountBoot"
       ELSE \E unlinked \in BOOLEAN :
            LET d == FallbackSlot(helper.rps)
                bad == up.doBooters /\ ~unlinked /\ helper.efiOld # "none"
            IN  /\ helper' = IF up.doBooters /\ unlinked
                             THEN [helper EXCEPT !.efiOld = "none"]
                             ELSE helper
                /\ IF up.doRPS /\ helper.rps[d].exists
                   THEN /\ du' = [dir |-> d, k |-> 1, err |-> FALSE,
                                  ret |-> "nukeFallbacks"]
                        /\ trace' = [trace EXCEPT !.nuked = d, !.untidy = bad]
                        /\ pc' = "sdeepunlink"
                   ELSE /\ du' = du
                        /\ trace' = [trace EXCEPT !.untidy = bad]
                        /\ pc' = "unmountBoot"

\* unmountBoot: nothing to unmount after a failed mount; its result is
\* only logged
UnmountBoot ==
    /\ pc = "unmountBoot"
    /\ UNCHANGED <<safeVars, watchVars, Host, i, bootupdates, rval, helper, pre, du, k, trace>>
    /\ up' = [up EXCEPT !.curBoot = FALSE]
    /\ pc' = "loop"

\* i++ of the for loop; the helper just unmounted is out of reach, and the
\* history of its update is folded into anyFailed. up->curRPS is dead here
\* (ucopyRPS writes it before activateRPS reads it, both under doRPS), so
\* it is cleared
LoopNext ==
    /\ pc = "loop"
    /\ UNCHANGED <<safeVars, watchVars, Host, bootupdates, rval, du, k>>
    /\ up' = [up EXCEPT !.curRPS = ""]
    /\ i' = i + 1
    /\ trace' = [NoTrace EXCEPT !.anyFailed = trace.anyFailed \/ ~trace.ok,
                                !.looped = TRUE,
                                !.stamp0 = trace.stamp0]
    /\ IF i + 1 < bootcount
       THEN /\ pc' = "mountBoot"
            /\ UNCHANGED <<helper, pre>>
       ELSE /\ pc' = "bootsDone"
            /\ helper' = NoHelper
            /\ pre' = NoHelper

(* ---- after the loop: applyStamps ---- *)
\* futimes(fd, cpath->tstamps) on the new bootstamp
StampOf(ts) == FileAt(ts.sec, ts.usec * 1000)

\* applyStamp: sunlink, sopen(O_CREAT), futimes. "ok": the bootstamp is
\* written; "gone": unlinked but not created; "kept": nothing was changed
ApplyStamp(p, how) ==
    IF how = "ok" THEN StampOf(tstamps[p])
    ELSE IF how = "gone" THEN NoFile
    ELSE stamp[p]

\* bootstamps written as soon as some helper was updated
C2_SomeUpdated == bootupdates > 0

\* line 273: bootstamps are written only if every helper was updated
AllUpdated == bootupdates = bootcount

\* lines 273-278
BootsDone ==
    /\ pc = "bootsDone"
    /\ UNCHANGED <<safeVars, watchVars, force, bootcount, src, tstamps, up, i, bootupdates, helper,
                   pre, du, k>>
    /\ pc' = "done"
    /\ IF ~AllUpdated
       THEN UNCHANGED <<stamp, rval, trace>>
       ELSE \E how \in [CPaths -> {"ok", "gone", "kept"}] :
            /\ stamp' = [p \in CPaths |-> ApplyStamp(p, how[p])]
            /\ rval' = IF \A p \in CPaths : how[p] = "ok" THEN 0 ELSE 1
            /\ trace' = [trace EXCEPT !.applied = TRUE]

Next ==
    \/ UpdateBoots_analyze
    \/ MountBoot
    \/ UcopyRPS_find
    \/ Sdeepunlink_file
    \/ Sdeepunlink_rmdir
    \/ UcopyRPS_mkdir
    \/ UcopyRPS_copy
    \/ UcopyMisc
    \/ NukeLabels
    \/ UcopyBooters
    \/ ActivateBooters
    \/ ActivateRPS_rename
    \/ ActivateRPS_fsync
    \/ ActivateMisc
    \/ RevertState
    \/ NukeFallbacks
    \/ UnmountBoot
    \/ LoopNext
    \/ BootsDone

Spec == Init /\ [][Next]_vars

(* ---- safecalls.c: spolicy, schdirparent, the primitives ---- *)
\* spolicy accepting the candidate whenever both fstat calls succeed
C4_SpolicyNoCompare(scopefd, candfd, fstatOK) ==
    IF ~fstatOK THEN "err" ELSE "ok"

\* spolicy(scopefd, candfd): non-zero if an fstat fails, EPERM if the
\* directories' st_dev differ, else 0
spolicy(scopefd, candfd, fstatOK) ==
    IF ~fstatOK THEN "err"
    ELSE IF st_dev(scopefd) # st_dev(candfd) THEN "EPERM"
    ELSE "ok"

\* a primitive is entered: bsderr = -1, savedir = -1
StartCall(op, scope, parent, child, newname, flags) ==
    [NoCall EXCEPT !.op = op, !.at = "schdirparent", !.scope = scope,
                   !.parent = parent, !.child = child, !.newname = newname,
                   !.flags = flags]

\* rval |= x
Accumulate(rval_, x) == IF rval_ = "ok" THEN x ELSE rval_

\* schdirparent, line 138: open(parent, O_RDONLY). What dirname(path) names
\* at this moment is the kernel's answer: any directory, or none
Schdirparent_open ==
    /\ sp.at = "schdirparent"
    /\ UNCHANGED <<updaterVars, watchVars, cwd, entries, job>>
    /\ \E d \in (IF sp.parent = "." THEN {cwd} ELSE DirIds) \cup {0} :
          sp' = IF d = 0 THEN [sp EXCEPT !.at = "restoredir"]
                ELSE [sp EXCEPT !.dirfd = d, !.at = "spolicy"]

\* schdirparent, line 139: spolicy(fdvol, dirfd)
Schdirparent_spolicy ==
    /\ sp.at = "spolicy"
    /\ UNCHANGED <<updaterVars, watchVars, cwd, entries, job>>
    /\ \E fstatOK \in BOOLEAN :
        LET r == spolicy(sp.scope, sp.dirfd, fstatOK)
        IN  sp' = IF r = "ok"
                  THEN [sp EXCEPT !.checked = sp.dirfd, !.at = "fchdir"]
                  ELSE [sp EXCEPT !.mismatch = (r = "EPERM"),
                                  !.at = "restoredir"]

\* schdirparent, lines 146-151: savedir = open("."), fchdir(dirfd). If
\* fchdir fails, savedir is closed again and restoredir's fchdir on it fails
Schdirparent_fchdir ==
    /\ sp.at = "fchdir"
    /\ UNCHANGED <<updaterVars, watchVars, entries, job>>
    /\ \/ /\ cwd' = sp.dirfd
          /\ sp' = [sp EXCEPT !.savedir = cwd, !.at = "op"]
       \/ /\ cwd' = cwd
          /\ sp' = [sp EXCEPT !.at = "restoredir"]

\* <operation>(child): the system call, on a name in the working directory.
\* Result: [names, changed, ret], one per outcome
Operation(op, flags, names, child, newname) ==
    LET fail == [names |-> names, changed |-> FALSE, ret |-> "err"]
    IN  {fail} \cup
        (CASE op = "smkdir" ->
                IF child \in names THEN {}
                ELSE {[names |-> names \cup {child}, changed |-> TRUE,
                       ret |-> "ok"]}
           [] op \in {"srmdir", "sunlink"} ->
                IF child \notin names THEN {}
                ELSE {[names |-> names \ {child}, changed |-> TRUE,
                       ret |-> "ok"]}
           [] op = "srename" ->
                IF child \notin names THEN {}
                ELSE {[names |-> (names \ {child}) \cup {newname},
                       changed |-> TRUE, ret |-> "ok"]}
           [] op = "sopen" /\ flags = "creat" ->
                \* O_CREAT gets O_EXCL
                IF child \in names THEN {}
                ELSE {[names |-> names \cup {child}, changed |-> TRUE,
                       ret |-> "ok"]}
           [] op = "sopen" /\ flags = "wronly" ->
                IF child \notin names THEN {}
                ELSE {[names |-> names, changed |-> TRUE, ret |-> "ok"]}
           [] OTHER ->
                IF child \notin names THEN {}
                ELSE {[names |-> names, changed |-> FALSE, ret |-> "ok"]})

\* the primitive's own system call, after schdirparent returned 0
Primitive_op ==
    /\ sp.at = "op"
    /\ UNCHANGED <<updaterVars, watchVars, cwd, job>>
    /\ \E o \in Operation(sp.op, sp.flags, entries[cwd], sp.child, sp.newname) :
        /\ entries' = [entries EXCEPT ![cwd] = o.names]
        /\ sp' = IF o.changed
                 THEN [sp EXCEPT !.mutated = cwd,
                                 !.mutName = IF sp.op = "srename"
                                             THEN sp.newname ELSE sp.child,
                                 !.ret = o.ret, !.at = "restoredir"]
                 ELSE [sp EXCEPT !.ret = o.ret, !.at = "restoredir"]

\* RESTOREDIR(savedir): fchdir(savedir) if there is one; it may fail ("lost
\* CWD"), which is logged
Restoredir ==
    /\ sp.at = "restoredir"
    /\ UNCHANGED <<updaterVars, watchVars, entries, job>>
    /\ sp' = [sp EXCEPT !.at = "return"]
    /\ IF sp.savedir = 0 THEN cwd' = cwd
       ELSE cwd' \in {sp.savedir, cwd}

(* ---- safecalls.c: the callers of the primitives ---- *)
Flags == {"rdonly", "wronly", "creat"}

\* a client calls sopen, smkdir, srmdir, sunlink or srename
Call_primitive ==
    /\ job.name = "none"
    /\ UNCHANGED <<updaterVars, watchVars, cwd, entries>>
    /\ job' = [NoJob EXCEPT !.name = "prim"]
    /\ \E scope \in DirIds, parent \in {".", "p"}, child \in Names :
          \/ \E flags \in Flags :
                sp' = StartCall("sopen", scope, parent, child, child, flags)
          \/ \E op \in {"smkdir", "srmdir", "sunlink"} :
                sp' = StartCall(op, scope, parent, child, child, "rdonly")
          \/ \E newname \in Names :
                sp' = StartCall("srename", scope, parent, child, newname,
                                "rdonly")

Prim_return ==
    /\ job.name = "prim" /\ sp.at = "return"
    /\ UNCHANGED <<updaterVars, watchVars, cwd, entries>>
    /\ sp' = NoCall
    /\ job' = NoJob

\* sdeepunlink(fdvol, path)
Call_sdeepunlink ==
    /\ job.name = "none"
    /\ UNCHANGED <<updaterVars, watchVars, cwd, entries, sp>>
    /\ \E scope \in DirIds, child \in Names :
          job' = [NoJob EXCEPT !.name = "sdeepunlink", !.at = "fts_open",
                               !.scope = scope, !.child = child]

\* fts_open(pathv, FTS_PHYSICAL | FTS_XDEV | FTS_NOSTAT): the directory the
\* path names is the kernel's answer
Sdeepunlink_fts_open ==
    /\ job.at = "fts_open"
    /\ UNCHANGED <<updaterVars, watchVars, cwd, entries, sp>>
    /\ \/ job' = NoJob
       \/ \E d \in DirIds :
             job' = [job EXCEPT !.root = d, !.home = cwd, !.at = "fts_read"]

\* fts_read: FTS changes into the directory and hands out its entries
\* (sunlink(fdvol, fts_accpath), a bare name), or cannot read it (FTS_DNR);
\* after the last entry it is back where it started and hands out the
\* directory in post-order (srmdir(fdvol, fts_accpath), the path as given)
Sdeepunlink_fts_read ==
    /\ job.at = "fts_read"
    /\ UNCHANGED <<updaterVars, watchVars, entries>>
    /\ LET rest == entries[job.root] \ job.visited
       IN  IF rest # {}
           THEN \/ \E n \in rest :
                     /\ cwd' = job.root
                     /\ sp' = StartCall("sunlink", job.scope, ".", n, n,
                                        "rdonly")
                     /\ job' = [job EXCEPT !.visited = job.visited \cup {n},
                                           !.at = "fts_unlinked"]
                \/ /\ UNCHANGED <<cwd, sp>>
                   /\ job' = [job EXCEPT !.visited = job.visited \cup rest,
                                         !.rval = "err"]
           ELSE /\ cwd' = job.home
                /\ sp' = StartCall("srmdir", job.scope, "p", job.child,
                                   job.child, "rdonly")
                /\ job' = [job EXCEPT !.at = "fts_rmdir"]

\* rval |= sunlink(...), rval |= srmdir(...)
Sdeepunlink_return ==
    /\ job.name = "sdeepunlink" /\ sp.at = "return"
    /\ UNCHANGED <<updaterVars, watchVars, cwd, entries>>
    /\ sp' = NoCall
    /\ job' = IF job.at = "fts_unlinked"
              THEN [job EXCEPT !.rval = Accumulate(job.rval, sp.ret),
                               !.at = "fts_read"]
              ELSE NoJob

\* sdeepmkdir(fdvol, path, mode)
Call_sdeepmkdir ==
    /\ job.name = "none"
    /\ UNCHANGED <<updaterVars, watchVars, cwd, entries, sp>>
    /\ \E scope \in DirIds, child \in Names :
          job' = [NoJob EXCEPT !.name = "sdeepmkdir", !.at = "stat",
                               !.scope = scope, !.child = child]

\* sdeepmkdir is over, returning ret: scopyfile goes on if it was 0
SdeepmkdirDone(ret) ==
    IF job.name = "scopyfile" /\ ret = "ok"
    THEN [job EXCEPT !.at = "dst_unlink", !.depth = 0]
    ELSE NoJob

\* sdeepmkdir, lines 348-363: stat(path). Whatever exists is the base case
\* (the S_IFDIR test never fires); ENOENT recurses on dirname(path), depth
\* counting the smkdir calls that are owed
Sdeepmkdir_stat ==
    /\ job.at = "stat"
    /\ UNCHANGED <<updaterVars, watchVars, cwd, entries, sp>>
    /\ \/ job' = IF job.depth = 0 THEN SdeepmkdirDone("ok")
                 ELSE [job EXCEPT !.at = "smkdir"]
       \/ /\ job.depth < MaxDepth
          /\ job' = [job EXCEPT !.depth = job.depth + 1]
       \/ job' = SdeepmkdirDone("err")

\* sdeepmkdir, line 366: smkdir(fdvol, path, mode), innermost call first
Sdeepmkdir_smkdir ==
    /\ job.at = "smkdir"
    /\ UNCHANGED <<updaterVars, watchVars, cwd, entries>>
    /\ \E n \in Names :
          sp' = StartCall("smkdir", job.scope, "p", n, n, "rdonly")
    /\ job' = [job EXCEPT !.at = "smkdir_wait"]

Sdeepmkdir_return ==
    /\ job.at = "smkdir_wait" /\ sp.at = "return"
    /\ UNCHANGED <<updaterVars, watchVars, cwd, entries>>
    /\ sp' = NoCall
    /\ job' = IF sp.ret # "ok" THEN SdeepmkdirDone("err")
              ELSE IF job.depth = 1 THEN SdeepmkdirDone("ok")
              ELSE [job EXCEPT !.depth = job.depth - 1, !.at = "smkdir"]

\* scopyfile(srcfdvol, srcpath, dstfdvol, dstpath)
Call_scopyfile ==
    /\ job.name = "none"
    /\ UNCHANGED <<updaterVars, watchVars, cwd, entries, sp>>
    /\ \E srcscope \in DirIds, scope \in DirIds, child \in Names :
          job' = [NoJob EXCEPT !.name = "scopyfile", !.at = "src_open",
                               !.scope = scope, !.srcscope = srcscope,
                               !.child = child]

\* line 384: sopen(srcfdvol, srcpath, O_RDONLY, 0)
Scopyfile_src ==
    /\ job.at = "src_open"
    /\ UNCHANGED <<updaterVars, watchVars, cwd, entries>>
    /\ sp' = StartCall("sopen", job.srcscope, "p", job.child, job.child,
                       "rdonly")
    /\ job' = [job EXCEPT !.at = "src_wait"]

\* line 395: (void)sunlink(dstfdvol, dstpath)
Scopyfile_unlink ==
    /\ job.at = "dst_unlink"
    /\ UNCHANGED <<updaterVars, watchVars, cwd, entries>>
    /\ sp' = StartCall("sunlink", job.scope, "p", job.child, job.child,
                       "rdonly")
    /\ job' = [job EXCEPT !.at = "unlink_wait"]

\* line 396: sopen(dstfdvol, dstpath, O_CREAT|O_WRONLY, ...)
Scopyfile_dst ==
    /\ job.at = "dst_open"
    /\ UNCHANGED <<updaterVars, watchVars, cwd, entries>>
    /\ sp' = StartCall("sopen", job.scope, "p", job.child, job.child,
                       "creat")
    /\ job' = [job EXCEPT !.at = "dst_wait"]

\* a primitive returns into scopyfile: a failed sopen ends it, as does a
\* failed fstat of the source; sunlink's result is dropped
Scopyfile_return ==
    /\ job.name = "scopyfile" /\ sp.at = "return"
    /\ job.at \in {"src_wait", "unlink_wait", "dst_wait"}
    /\ UNCHANGED <<updaterVars, watchVars, cwd, entries>>
    /\ sp' = NoCall
    /\ IF job.at = "unlink_wait" THEN job' = [job EXCEPT !.at = "dst_open"]
       ELSE IF sp.ret # "ok" THEN job' = NoJob
       ELSE IF job.at = "src_wait"
       THEN \/ job' = [job EXCEPT !.at = "stat"]
            \/ job' = NoJob
       ELSE job' = [job EXCEPT !.at = "write"]

\* lines 400-409: read and write through the descriptors, then fchmod
Scopyfile_write ==
    /\ job.at = "write"
    /\ UNCHANGED <<updaterVars, watchVars, cwd, entries, sp>>
    /\ job' = NoJob

\* the updater at rest while the scoped syscalls are exercised
UpdaterIdle ==
    /\ pc = "done"
    /\ force = FALSE
    /\ bootcount = 0
    /\ src = [p \in CPaths |-> SrcTime]
    /\ stamp = [p \in CPaths |-> SrcTime]
    /\ tstamps = [p \in CPaths |-> Captured(NoFile)]
    /\ up = [curBoot |-> FALSE, curRPS |-> "", changestate |-> nothingSerious,
             doRPS |-> FALSE, doMisc |-> FALSE, doBooters |-> FALSE,
             efidstOld |-> FALSE]
    /\ i = 0
    /\ bootupdates = 0
    /\ rval = 0
    /\ helper = NoHelper
    /\ pre = NoHelper
    /\ du = NoDu
    /\ k = 0
    /\ trace = NoTrace

\* a process somewhere in directories that hold something or nothing
SafeInit ==
    /\ UpdaterIdle
    /\ cwd \in DirIds
    /\ \E full \in SUBSET DirIds :
          entries = [d \in DirIds |-> IF d \in full THEN {"a"} ELSE {}]
    /\ sp = NoCall
    /\ job = NoJob
    /\ WatchIdle

SafeNext ==
    \/ Call_primitive
    \/ Schdirparent_open
    \/ Schdirparent_spolicy
    \/ Schdirparent_fchdir
    \/ Primitive_op
    \/ Restoredir
    \/ Prim_return
    \/ Call_sdeepunlink
    \/ Sdeepunlink_fts_open
    \/ Sdeepunlink_fts_read
    \/ Sdeepunlink_return
    \/ Call_sdeepmkdir
    \/ Sdeepmkdir_stat
    \/ Sdeepmkdir_smkdir
    \/ Sdeepmkdir_return
    \/ Call_scopyfile
    \/ Scopyfile_src
    \/ Scopyfile_unlink
    \/ Scopyfile_dst
    \/ Scopyfile_return
    \/ Scopyfile_write

SafeSpec == SafeInit /\ [][SafeNext]_vars

(* ---- watchvol.c: the volume watcher of kextd ---- *)
\* Each handler below is one callback or MiG routine of kextd's run loop;
\* the run loop is single-threaded, so a handler runs to its end before the
\* next one starts.
kWatchSettleTime == 5
GIVEUPTHRESH == 5
EX_TEMPFAIL == 75

\* a handler that would count an error past MaxErr is not taken
MaxErr == 6

\* exit statuses a client hands to _kextmanager_unlock_volume
ExitStatuses == {0, 1, EX_TEMPFAIL}

\* what check_rebuild finds and does. "launched": check_mkext says rebuild
\* and rebuild_mkext launches kextcache, or the mkext is fine, the helper
\* partitions are out of date and rebuild_boot launches kextcache -u;
\* "mkext_failed": rebuild_mkext fails to launch; "none": nothing is out of
\* date, or there are no helper partitions, or rebuild_boot fails to launch
CheckOutcomes == {"launched", "mkext_failed", "none"}

Watched(dict) == {v \in Vols : dict[v].watched}
Locked(dict) == {v \in Vols : dict[v].lock # NULL}

\* check_rebuild(watched, false): cancels a pending timer; errcount++ only
\* when rebuild_mkext fails; returns launched
check_rebuild(w, o) ==
    [w |-> [w EXCEPT !.delayer = {},
                     !.errcount = IF o = "mkext_failed" THEN @ + 1 ELSE @],
     launched |-> o = "launched"]

\* a handler's frame in `last': a callback, a locking service
Called(op) == [NoLast EXCEPT !.op = op]

\* gClientUID: root, and some user
UIDs == {0, 501}

\* the services serving every caller
C31_AnyUidMay(uid) == FALSE

\* "if (gClientUID != 0)": non-root doesn't need to lock or unlock volumes
NotPermitted(uid) == uid # 0

Frame(op, v, client) ==
    [NoLast EXCEPT !.op = op, !.vol = v, !.client = client,
                   !.w0 = IF v \in Vols THEN sFsysWatchDict[v] ELSE NoVol,
                   !.reboot = sRebootLock,
                   !.locked = Locked(sFsysWatchDict)]

(* ---- the settle timer: fsys_changed, check_now ---- *)
\* the timer of this volume has reached its fire date
Due(w) == 0 \in w.delayer

\* a notification for volume v. One burst is under watch at a time: a
\* notification of another volume is let pass while it has had no
\* check_rebuild
Notified(b, v, created) ==
    IF b.n > 0 /\ b.vol # v /\ b.calls = 0 THEN b
    ELSE IF b.n > 0 /\ b.vol = v /\ b.since < kWatchSettleTime
    THEN [b EXCEPT !.n = 2, !.since = 0, !.other = @ \/ ~created]
    ELSE [NoBurst EXCEPT !.vol = v, !.n = 1, !.other = ~created]

\* check_rebuild ran for volume v, from check_now or from elsewhere
Checked(b, v, byTimer) ==
    IF b.n = 0 \/ b.vol # v THEN b
    ELSE [b EXCEPT !.calls = IF @ = 0 THEN 1 ELSE 2,
                   !.early = @ \/ ~byTimer \/ b.since # kWatchSettleTime,
                   !.other = @ \/ ~byTimer]

\* the volume's entry is gone or is a new one
Forgotten(b, v) == IF b.vol = v THEN NoBurst ELSE b

\* fsys_changed re-arming only when no timer is pending
C12_KeepPendingTimer(w) ==
    IF w.delayer # {} THEN w.delayer ELSE {kWatchSettleTime}

\* lines 727-737: a pending timer is invalidated and a new one created for
\* now + kWatchSettleTime
SettleTimer(w) == {kWatchSettleTime}

\* fsys_changed: the token's state is the watchedVol. If the new timer
\* cannot be created the old one is gone and none is pending
fsys_changed ==
    \E v \in Watched(sFsysWatchDict), created \in BOOLEAN :
        LET w == sFsysWatchDict[v]
        IN  /\ sFsysWatchDict' =
                 [sFsysWatchDict EXCEPT
                    ![v].delayer = IF created THEN SettleTimer(w) ELSE {}]
            /\ burst' = Notified(burst, v, created)
            /\ last' = Called("fsys_changed")
            /\ UNCHANGED <<updaterVars, safeVars, sRebootLock>>

\* check_now: the timer fires; delayer = NULL, check_rebuild(watched, false)
check_now ==
    \E v \in Watched(sFsysWatchDict), o \in CheckOutcomes :
        LET c == check_rebuild(sFsysWatchDict[v], o)
        IN  /\ Due(sFsysWatchDict[v])
            /\ c.w.errcount <= MaxErr
            /\ sFsysWatchDict' = [sFsysWatchDict EXCEPT ![v] = c.w]
            /\ burst' = Checked(burst, v, TRUE)
            /\ last' = Called("check_now")
            /\ UNCHANGED <<updaterVars, safeVars, sRebootLock>>

\* a second passes: every pending timer is a second nearer its fire date.
\* The run loop serves a timer when it falls due
Tick ==
    /\ \E v \in Vols : sFsysWatchDict[v].delayer # {}
    /\ \A v \in Vols : ~Due(sFsysWatchDict[v])
    /\ sFsysWatchDict' =
         [v \in Vols |->
            [sFsysWatchDict[v] EXCEPT !.delayer = {t - 1 : t \in @}]]
    /\ burst' = IF burst.n > 0 /\ burst.since <= kWatchSettleTime
                THEN [burst EXCEPT !.since = @ + 1] ELSE burst
    /\ UNCHANGED <<updaterVars, safeVars, sRebootLock, last>>

(* ---- diskarb callbacks: vol_appeared, vol_disappeared, is_dadisk_busy ---- *)
\* vol_disappeared on one entry: the entry is removed, its timer
\* invalidated, its lock cleaned up, the watchedVol destroyed
vol_gone(dict, v) == [dict EXCEPT ![v] = NoVol]

\* vol_appeared(disk): nothing if the description cannot be read; an entry
\* already there is removed by vol_disappeared first; a volume that is not
\* writable, is a network volume, has no bootcaches.plist or whose paths
\* cannot be watched gets no entry; otherwise a fresh watchedVol is entered
\* and check_rebuild called. Result: [dict, launched, entered], one per outcome
vol_appeared_outcomes(dict, v) ==
    LET d0 == vol_gone(dict, v)
    IN  {[dict |-> dict, launched |-> FALSE, entered |-> FALSE],
         [dict |-> d0, launched |-> FALSE, entered |-> FALSE]} \cup
        {[dict |-> [d0 EXCEPT ![v] = check_rebuild(NewVol, o).w],
          launched |-> check_rebuild(NewVol, o).launched,
          entered |-> TRUE] : o \in CheckOutcomes}

vol_appeared ==
    \E v \in Vols : \E a \in vol_appeared_outcomes(sFsysWatchDict, v) :
        /\ sFsysWatchDict' = a.dict
        /\ burst' = IF a.dict[v] = sFsysWatchDict[v] THEN burst
                    ELSE Forgotten(burst, v)
        /\ last' = Called("vol_appeared")
        /\ UNCHANGED <<updaterVars, safeVars, sRebootLock>>

vol_disappeared ==
    \E v \in Watched(sFsysWatchDict) :
        /\ sFsysWatchDict' = vol_gone(sFsysWatchDict, v)
        /\ burst' = Forgotten(burst, v)
        /\ last' = Called("vol_disappeared")
        /\ UNCHANGED <<updaterVars, safeVars, sRebootLock>>

\* check_vol_busy answering for the lock alone
C22_BusyOnlyIfLocked(w, o) == [w |-> w, busy |-> w.lock # NULL]

\* check_vol_busy(watched): busy if locked, else what
\* check_rebuild(watched, false) returns
check_vol_busy(w, o) ==
    IF w.lock # NULL THEN [w |-> w, busy |-> TRUE]
    ELSE [w |-> check_rebuild(w, o).w, busy |-> check_rebuild(w, o).launched]

\* is_dadisk_busy(disk, ctx), diskarb's unmount approval callback. Answers:
\* "busy", a dissenter with kDAReturnBusy; "none", no dissenter; "nodesc",
\* none because the disk's description or BSD name could not be had;
\* "trouble", none because DADissenterCreate failed
is_dadisk_busy ==
    \E v \in Vols :
        LET f == [Called("is_dadisk_busy") EXCEPT !.vol = v]
            w == sFsysWatchDict[v]
        IN  /\ UNCHANGED <<updaterVars, safeVars, sRebootLock>>
            /\ \/ /\ last' = [f EXCEPT !.result = "nodesc"]
                  /\ UNCHANGED <<sFsysWatchDict, burst>>
               \/ /\ ~w.watched
                  /\ last' = [f EXCEPT !.result = "none"]
                  /\ UNCHANGED <<sFsysWatchDict, burst>>
               \/ /\ w.watched
                  /\ \E o \in CheckOutcomes, created \in BOOLEAN :
                     LET c == check_vol_busy(w, o)
                     IN  /\ c.w.errcount <= MaxErr
                         /\ ~c.busy => created
                         /\ sFsysWatchDict' =
                              [sFsysWatchDict EXCEPT ![v] = c.w]
                         /\ burst' = IF w.lock = NULL
                                     THEN Checked(burst, v, FALSE)
                                     ELSE burst
                         /\ last' =
                              [f EXCEPT
                                 !.result = IF ~c.busy THEN "none"
                                            ELSE IF created THEN "busy"
                                            ELSE "trouble",
                                 !.launched =
                                     IF w.lock = NULL /\ o = "launched"
                                     THEN {v} ELSE {}]

(* ---- locking services ---- *)
\* lock_vol(watched, client): the lock is a CFMachPort on the client's port
\* with lock_died as its invalidation callback. ENOMEM if the run loop, the
\* port or its run loop source cannot be had; _kextmanager_lock_volume then
\* cleans the lock up. Result: [w, rval]
lock_vol(w, client, made) ==
    IF made THEN [w |-> [w EXCEPT !.lock = client], rval |-> "0"]
    ELSE [w |-> [w EXCEPT !.lock = NULL], rval |-> "ENOMEM"]

\* _kextmanager_lock_volume not looking at the reboot lock
C18_LockWhileRebooting == FALSE

\* lines 1061-1067: new locks are denied while rebooting
DenyNewLocks == sRebootLock # NULL

\* _kextmanager_lock_volume(p, client, volDev, &lockstatus). After the lock
\* is taken, or found taken, owners are enabled on a volume that ignores
\* them and disableOwners is set
kextmanager_lock_volume ==
    \E client \in Clients, v \in Vols, uid \in UIDs :
        LET f == [Frame("lock_volume", v, client) EXCEPT !.uid = uid]
            w == sFsysWatchDict[v]
        IN  /\ UNCHANGED <<updaterVars, safeVars, sRebootLock, burst>>
            /\ \/ /\ NotPermitted(uid)
                  /\ last' = [f EXCEPT !.kr = "KERN_SUCCESS",
                                       !.result = "EPERM"]
                  /\ UNCHANGED sFsysWatchDict
               \/ IF NotPermitted(uid) THEN FALSE
                  ELSE IF DenyNewLocks
                  THEN /\ last' = [f EXCEPT !.kr = "KERN_SUCCESS",
                                            !.result = "EBUSY"]
                       /\ UNCHANGED sFsysWatchDict
                  ELSE IF ~w.watched
                  THEN /\ last' = [f EXCEPT !.kr = "KERN_SUCCESS",
                                            !.result = "ENOENT"]
                       /\ UNCHANGED sFsysWatchDict
                  ELSE \E made \in BOOLEAN, ignoresOwners \in BOOLEAN :
                       LET l == lock_vol(w, client, made)
                           w1 == IF w.lock # NULL THEN w ELSE l.w
                           w2 == IF ignoresOwners
                                 THEN [w1 EXCEPT !.disableOwners = TRUE]
                                 ELSE w1
                       IN  IF w.lock = NULL /\ l.rval # "0"
                           THEN /\ ~ignoresOwners
                                /\ last' = [f EXCEPT !.kr = "KERN_FAILURE"]
                                /\ sFsysWatchDict' =
                                     [sFsysWatchDict EXCEPT ![v] = l.w]
                           ELSE /\ w.lock # NULL => made
                                /\ last' = [f EXCEPT
                                     !.kr = "KERN_SUCCESS",
                                     !.result = IF w.lock # NULL THEN "EBUSY"
                                                ELSE "0"]
                                /\ sFsysWatchDict' =
                                     [sFsysWatchDict EXCEPT ![v] = w2]

\* unlock that takes EX_TEMPFAIL for an error like any other
C20_CountTempFail(errcount, exitstatus) ==
    IF exitstatus # 0 THEN errcount + 1
    ELSE IF errcount # 0 THEN 0 ELSE errcount

\* lines 1147-1159: the error count after an unlock with this exit status
unlock_errcount(errcount, exitstatus) ==
    IF exitstatus # 0
    THEN IF exitstatus = EX_TEMPFAIL THEN errcount ELSE errcount + 1
    ELSE IF errcount # 0 THEN 0 ELSE errcount

\* unlock that asks only whether the volume is locked
C19_AnyClientUnlocks(w, client) == w.watched /\ w.lock # NULL

\* lines 1128-1145: may this client unlock this volume
unlock_allowed(w, client) ==
    w.watched /\ w.lock # NULL /\ client = w.lock

\* _kextmanager_unlock_volume(p, client, volDev, exitstatus)
kextmanager_unlock_volume ==
    \E client \in Clients, v \in Vols, uid \in UIDs :
        LET f == [Frame("unlock_volume", v, client) EXCEPT !.uid = uid]
            w == sFsysWatchDict[v]
        IN  /\ UNCHANGED <<updaterVars, safeVars, sRebootLock, burst>>
            /\ \/ \* mach_port_deallocate fails
                  /\ last' = [f EXCEPT !.kr = "KERN_FAILURE"]
                  /\ UNCHANGED sFsysWatchDict
               \/ /\ NotPermitted(uid)
                  /\ last' = [f EXCEPT !.kr = "KERN_SUCCESS",
                                       !.result = "EPERM"]
                  /\ UNCHANGED sFsysWatchDict
               \/ /\ ~NotPermitted(uid)
                  /\ ~unlock_allowed(w, client)
                  /\ last' = [f EXCEPT !.kr = "KERN_FAILURE",
                                       !.result = "refused"]
                  /\ UNCHANGED sFsysWatchDict
               \/ \E exitstatus \in ExitStatuses :
                  /\ ~NotPermitted(uid)
                  /\ unlock_allowed(w, client)
                  /\ unlock_errcount(w.errcount, exitstatus) <= MaxErr
                  /\ last' = [f EXCEPT !.kr = "KERN_SUCCESS",
                                       !.result = "0",
                                       !.status = exitstatus]
                  /\ sFsysWatchDict' =
                       [sFsysWatchDict EXCEPT
                          ![v].errcount = unlock_errcount(@, exitstatus),
                          ![v].disableOwners = FALSE,
                          ![v].lock = NULL]

\* lock_died that leaves the lock in place
C13_LockSurvives(w, found) == w

\* lock_died on a volume's lock: if the volume is still in the dictionary
\* and is locked, owners are disabled again when they had been enabled for
\* the locker and statfs finds the volume, and the lock is cleaned up
lock_died_vol(w, found) ==
    IF w.watched /\ w.lock # NULL
    THEN [w EXCEPT !.disableOwners = IF found THEN FALSE ELSE @,
                   !.lock = NULL]
    ELSE w

\* lock_died(p, info): the port p of a CFMachPort made by lock_vol or by
\* _kextmanager_lock_reboot has become invalid; info is the watchedVol
\* or &sRebootLock. The handler does not look at p: the port of a client
\* that had unlocked earlier is served like the holder's
lock_died ==
    \E p \in Clients, info \in Vols \cup {"sRebootLock"} :
        /\ last' = Frame("lock_died", info, p)
        /\ UNCHANGED <<updaterVars, safeVars, burst>>
        /\ IF info = "sRebootLock"
           THEN /\ sRebootLock' = NULL
                /\ UNCHANGED sFsysWatchDict
           ELSE /\ \E found \in BOOLEAN :
                     /\ ~sFsysWatchDict[info].disableOwners => found
                     /\ sFsysWatchDict' =
                          [sFsysWatchDict EXCEPT
                             ![info] = lock_died_vol(@, found)]
                /\ UNCHANGED sRebootLock

(* ---- _kextmanager_lock_reboot ---- *)
\* the state of a lock_reboot request as it walks the volumes
Walk(dict) ==
    [dict |-> dict, busy |-> FALSE, checked |-> {}, launched |-> {},
     scanned |-> {}, skipped |-> {}]

\* reconsiderVolume(volDev) for a mounted local volume: one that is not in
\* the dictionary goes through vol_appeared, and if that entered it
\* check_rebuild is called once more; only this second call's result is
\* returned. Result: the walks this one can become
reconsiderVolume(r, v) ==
    IF r.dict[v].watched THEN {r}
    ELSE UNION {
           IF ~a.entered THEN {[r EXCEPT !.dict = a.dict]}
           ELSE {[dict |-> [a.dict EXCEPT ![v] = check_rebuild(@, o).w],
                  busy |-> r.busy \/ check_rebuild(a.dict[v], o).launched,
                  checked |-> r.checked \cup {v},
                  launched |-> r.launched \cup
                      (IF a.launched \/ check_rebuild(a.dict[v], o).launched
                       THEN {v} ELSE {}),
                  scanned |-> r.scanned,
                  skipped |-> r.skipped] : o \in CheckOutcomes}
           : a \in vol_appeared_outcomes(r.dict, v) }

\* check_locked giving up one error later
C16_GiveUpLater(w) == w.errcount > GIVEUPTHRESH

\* check_locked's test of the error count
GaveUp(w) == w.errcount >= GIVEUPTHRESH

\* check_locked(key, val, &bsdName): the volume is reported if it is locked,
\* or if it has not been given up and check_rebuild launches a rebuild
check_locked(r, v) ==
    LET w == r.dict[v]
    IN  IF ~w.watched THEN {r}
        ELSE IF w.lock # NULL THEN {[r EXCEPT !.busy = TRUE]}
        ELSE IF GaveUp(w) THEN {[r EXCEPT !.skipped = @ \cup {v}]}
        ELSE {[dict |-> [r.dict EXCEPT ![v] = check_rebuild(w, o).w],
               busy |-> r.busy \/ check_rebuild(w, o).launched,
               checked |-> r.checked \cup {v},
               launched |-> r.launched \cup
                   (IF check_rebuild(w, o).launched THEN {v} ELSE {}),
               scanned |-> r.scanned \cup {v},
               skipped |-> r.skipped] : o \in CheckOutcomes}

\* reconsiderVolumes(busyDev): the for loop over the mount list
RECURSIVE reconsiderVolumes(_, _)
reconsiderVolumes(rs, vs) ==
    IF vs = {} THEN rs
    ELSE LET v == CHOOSE x \in vs : TRUE
         IN  reconsiderVolumes(UNION {reconsiderVolume(r, v) : r \in rs},
                               vs \ {v})

\* CFDictionaryApplyFunction(sFsysWatchDict, check_locked, &bsdName)
RECURSIVE ApplyCheckLocked(_, _)
ApplyCheckLocked(rs, vs) ==
    IF vs = {} THEN rs
    ELSE LET v == CHOOSE x \in vs : TRUE
         IN  ApplyCheckLocked(UNION {check_locked(r, v) : r \in rs},
                              vs \ {v})

\* lines 977-1018: busy if the reboot lock is held; busy if reconsiderVolumes
\* says so; else the scan. Result: the walks at the point of decision
LockRebootWalks ==
    LET rs == reconsiderVolumes({Walk(sFsysWatchDict)}, Vols)
    IN  {r \in rs : r.busy} \cup
        ApplyCheckLocked({[r EXCEPT !.busy = FALSE] : r \in {x \in rs : ~x.busy}},
                         Vols)

\* _kextmanager_lock_reboot(p, client, busyDev, &busyStatus). made: "ok";
\* "noport": no run loop or no CFMachPort; "nosource": the CFMachPort is
\* in sRebootLock but its run loop source could not be created
kextmanager_lock_reboot ==
    \E client \in Clients, uid \in UIDs :
        LET f == [Frame("lock_reboot", "none", client) EXCEPT !.uid = uid]
        IN  /\ UNCHANGED <<updaterVars, safeVars>>
            /\ \/ /\ NotPermitted(uid)
                  /\ last' = [f EXCEPT !.kr = "KERN_SUCCESS",
                                       !.result = "EPERM"]
                  /\ UNCHANGED <<sFsysWatchDict, sRebootLock, burst>>
               \/ /\ ~NotPermitted(uid)
                  /\ sRebootLock # NULL
                  /\ last' = [f EXCEPT !.kr = "KERN_SUCCESS",
                                       !.result = "EBUSY"]
                  /\ UNCHANGED <<sFsysWatchDict, sRebootLock, burst>>
               \/ /\ ~NotPermitted(uid)
                  /\ sRebootLock = NULL
                  /\ \E r \in LockRebootWalks :
                     LET g == [f EXCEPT !.launched = r.launched,
                                        !.scanned = r.scanned,
                                        !.skipped = r.skipped]
                     IN  /\ \A v \in Vols : r.dict[v].errcount <= MaxErr
                         /\ sFsysWatchDict' = r.dict
                         /\ burst' = IF burst.vol \in r.checked
                                     THEN Checked(burst, burst.vol, FALSE)
                                     ELSE burst
                         /\ IF r.busy
                            THEN /\ last' = [g EXCEPT !.kr = "KERN_SUCCESS",
                                                      !.result = "EBUSY"]
                                 /\ UNCHANGED sRebootLock
                            ELSE \E made \in {"ok", "noport", "nosource"} :
                                 /\ sRebootLock' =
                                      IF made = "noport" THEN NULL ELSE client
                                 /\ last' =
                                      IF made = "ok"
                                      THEN [g EXCEPT !.kr = "KERN_SUCCESS",
                                                     !.result = "0"]
                                      ELSE [g EXCEPT !.kr = "KERN_FAILURE"]

(* ---- kextd's run loop ---- *)
\* the updater and the scoped syscalls at rest
SafeIdle ==
    /\ cwd = 1
    /\ entries = [d \in DirIds |-> {}]
    /\ sp = NoCall
    /\ job = NoJob

WatchInit ==
    /\ UpdaterIdle
    /\ SafeIdle
    /\ WatchIdle

\* the locking services, with diskarb reporting volumes
WatchNext ==
    \/ vol_appeared
    \/ vol_disappeared
    \/ is_dadisk_busy
    \/ kextmanager_lock_reboot
    \/ kextmanager_lock_volume
    \/ kextmanager_unlock_volume
    \/ lock_died

WatchSpec == WatchInit /\ [][WatchNext]_vars

\* the settle timer, with diskarb reporting volumes and asking about them
SettleNext ==
    \/ vol_appeared
    \/ vol_disappeared
    \/ is_dadisk_busy
    \/ fsys_changed
    \/ check_now
    \/ Tick

SettleSpec == WatchInit /\ [][SettleNext]_vars

(* ---- reboot against a volume whose rebuild always fails ---- *)
\* _kextmanager_lock_reboot from a root client (shutdown, reboot). Every
\* volume the scan calls check_rebuild for is out of date: kextcache is
\* launched for it, or rebuild_mkext fails to launch it
RootRebootRequest ==
    /\ kextmanager_lock_reboot
    /\ last'.result # "EPERM"
    /\ \A v \in last'.scanned :
           \/ v \in last'.launched
           \/ sFsysWatchDict'[v].errcount = sFsysWatchDict[v].errcount + 1

\* _kextmanager_unlock_volume from a builder that failed: its exit status
\* is neither 0 nor EX_TEMPFAIL
FailedUnlock ==
    /\ kextmanager_unlock_volume
    /\ last'.result = "0" => last'.status \notin {0, EX_TEMPFAIL}

\* a builder that took a lock ends: it unlocks, or it dies and its port
\* with it
BuilderEnds ==
    \/ FailedUnlock
    \/ lock_died

RebootNext ==
    \/ RootRebootRequest
    \/ kextmanager_lock_volume
    \/ FailedUnlock
    \/ lock_died

\* requests for the reboot lock keep coming, and the run loop serves each
\* message and each port invalidation that arrives
RebootSpec ==
    /\ WatchInit
    /\ [][RebootNext]_vars
    /\ WF_vars(RootRebootRequest)
    /\ WF_vars(BuilderEnds)

(* ---- bootroot.c: staleness of the cached paths ---- *)
\* what stat can say of a source and of a bootstamp: missing; a source of
\* second 1, written on the microsecond or between two; a bootstamp as
\* futimes leaves it (whole microseconds), of the source's second or a later
SrcFiles == {NoFile, FileAt(1, 0), FileAt(1, 1500)}
StampFiles == {NoFile, FileAt(1, 1000), FileAt(2, 0)}

\* a host volume with its sources and bootstamps, nothing running
HostInit ==
    /\ pc = "host"
    /\ force = FALSE
    /\ bootcount = 0
    /\ src \in [CPaths -> SrcFiles]
    /\ stamp \in [CPaths -> StampFiles]
    /\ tstamps = [p \in CPaths |-> Captured(NoFile)]
    /\ up = [curBoot |-> FALSE, curRPS |-> "", changestate |-> nothingSerious,
             doRPS |-> FALSE, doMisc |-> FALSE, doBooters |-> FALSE,
             efidstOld |-> FALSE]
    /\ i = 0
    /\ bootupdates = 0
    /\ rval = 0
    /\ helper = NoHelper
    /\ pre = NoHelper
    /\ du = NoDu
    /\ k = 0
    /\ trace = NoTrace
    /\ SafeIdle
    /\ WatchIdle

\* needsUpdate(root, cpath, &needsUp) for one path, needsUp holding `before':
\* tstamps are captured if the source is there
NeedsUpdate_call ==
    /\ pc = "host"
    /\ \E p \in CPaths, before \in BOOLEAN :
          /\ tstamps' = [tstamps EXCEPT
                           ![p] = IF src[p].exists THEN Captured(src[p])
                                  ELSE @]
          /\ trace' = [trace EXCEPT
                         !.checked =
                             [path |-> p, before |-> before,
                              ood |-> needsUpdate(src[p], stamp[p],
                                                  before).ood]]
    /\ pc' = "needsUpdate"
    /\ UNCHANGED <<safeVars, watchVars, force, bootcount, src, stamp, up, i,
                   bootupdates, rval, helper, pre, du, k>>

\* needUpdates(caches, &any, &rps, &booters, &misc) on caches that
\* readCaches has just calloc'ed
NeedUpdates_call ==
    /\ pc = "host"
    /\ \E uninit \in BOOLEAN :
          trace' = [trace EXCEPT
                      !.assessed = needUpdates(src, stamp, uninit)]
    /\ tstamps' = [p \in CPaths |-> Captured(src[p])]
    /\ pc' = "needUpdates"
    /\ UNCHANGED <<safeVars, watchVars, force, bootcount, src, stamp, up, i,
                   bootupdates, rval, helper, pre, du, k>>

StaleNext ==
    \/ NeedsUpdate_call
    \/ NeedUpdates_call

StaleSpec == HostInit /\ [][StaleNext]_vars

(* ---- bootfiles.h: updateBoots run again on the same volume ---- *)
\* mtimes a source gets when it is written again
TouchTimes == {FileAt(1, 1500), FileAt(2, 0)}

\* a volume with helpers, its RPS sources alike, before the first run
RerunInit ==
    /\ pc = "updateBoots"
    /\ force \in BOOLEAN
    /\ bootcount = MaxBoots
    /\ \E r \in SrcFiles, e \in SrcFiles, l \in SrcFiles :
           src = [p \in CPaths |-> IF p = EfiPath THEN e
                                   ELSE IF p = LabelPath THEN l ELSE r]
    /\ \E st \in StampFiles : stamp = [p \in CPaths |-> st]
    /\ tstamps = [p \in CPaths |-> Captured(NoFile)]
    /\ up = [curBoot |-> FALSE, curRPS |-> "", changestate |-> nothingSerious,
             doRPS |-> FALSE, doMisc |-> FALSE, doBooters |-> FALSE,
             efidstOld |-> FALSE]
    /\ i = 0
    /\ bootupdates = 0
    /\ rval = 0
    /\ helper = NoHelper
    /\ pre = NoHelper
    /\ du = NoDu
    /\ k = 0
    /\ trace = NoTrace
    /\ SafeIdle
    /\ WatchIdle

\* what ucopyRPS and ucopyBooters need of the host: the sources they copy
SourcesThere ==
    /\ up.doRPS => \A p \in RpsIdx : src[p].exists
    /\ up.doBooters => src[EfiPath].exists

\* the helper loop (lines 238-272) as the host volume sees it: it reads the
\* sources and counts the helpers it updated
HelpersUpdated ==
    /\ pc = "mountBoot"
    /\ \E n \in {0, bootcount} :
          /\ n = bootcount => SourcesThere
          /\ bootupdates' = n
    /\ i' = bootcount
    /\ pc' = "bootsDone"
    /\ UNCHANGED <<safeVars, watchVars, force, bootcount, src, stamp, tstamps,
                   up, rval, helper, pre, du, k, trace>>

\* somebody writes a source while the first run is between needUpdates and
\* applyStamps
Touch ==
    /\ pc \in {"mountBoot", "bootsDone"}
    /\ trace.run = 1
    /\ trace.touched = {}
    /\ \E p \in CPaths, new \in TouchTimes :
          /\ src[p].exists
          /\ new # src[p]
          /\ src' = [src EXCEPT ![p] = new]
          /\ trace' = [trace EXCEPT !.touched = {p}]
    /\ UNCHANGED <<safeVars, watchVars, pc, force, bootcount, stamp, tstamps,
                   up, i, bootupdates, rval, helper, pre, du, k>>

\* updateBoots(volRoot, argv0, false) in a new process, after a run that
\* returned 0 and wrote the bootstamps
SecondRun ==
    /\ pc = "done"
    /\ trace.run = 1
    /\ trace.applied
    /\ rval = 0
    /\ pc' = "updateBoots"
    /\ force' = FALSE
    /\ tstamps' = [p \in CPaths |-> Captured(NoFile)]
    /\ up' = [curBoot |-> FALSE, curRPS |-> "", changestate |-> nothingSerious,
              doRPS |-> FALSE, doMisc |-> FALSE, doBooters |-> FALSE,
              efidstOld |-> FALSE]
    /\ i' = 0
    /\ bootupdates' = 0
    /\ trace' = [NoTrace EXCEPT !.run = 2, !.touched = trace.touched]
    /\ UNCHANGED <<safeVars, watchVars, bootcount, src, stamp, rval, helper,
                   pre, du, k>>

RerunNext ==
    \/ UpdateBoots_analyze
    \/ HelpersUpdated
    \/ Touch
    \/ BootsDone
    \/ SecondRun

RerunSpec == RerunInit /\ [][RerunNext]_vars

(* ---- bootroot.c: check_mkext ---- *)
\* st_mtime values, in seconds
MaxMtime == 3
MkextFiles == {NoFile} \cup {FileAt(t, 0) : t \in 0..MaxMtime}

\* check_mkext taking the mkext for fresh when it is as old as Extensions
C27_FreshIfSameSecond(extsb, sb) ==
    IF ~extsb.exists THEN FALSE
    ELSE IF ~sb.exists THEN TRUE
    ELSE sb.sec # extsb.sec

\* lines 736-751, caches->mkext set: no Extensions, nothing to build from;
\* no mkext, rebuild; else rebuild unless the mkext is one second younger
check_mkext(extsb, sb) ==
    IF ~extsb.exists THEN FALSE
    ELSE IF ~sb.exists THEN TRUE
    ELSE sb.sec # extsb.sec + 1

\* a volume's Extensions directory and mkext as stat finds them
MkextInit ==
    /\ pc = "host"
    /\ force = FALSE
    /\ bootcount = 0
    /\ src = [p \in CPaths |-> SrcTime]
    /\ stamp = [p \in CPaths |-> SrcTime]
    /\ tstamps = [p \in CPaths |-> Captured(NoFile)]
    /\ up = [curBoot |-> FALSE, curRPS |-> "", changestate |-> nothingSerious,
             doRPS |-> FALSE, doMisc |-> FALSE, doBooters |-> FALSE,
             efidstOld |-> FALSE]
    /\ i = 0
    /\ bootupdates = 0
    /\ rval = 0
    /\ helper = NoHelper
    /\ pre = NoHelper
    /\ du = NoDu
    /\ k = 0
    /\ \E has \in BOOLEAN, fits \in BOOLEAN, extsb \in MkextFiles,
          sb \in MkextFiles :
          trace = [NoTrace EXCEPT !.mkext.has = has, !.mkext.fits = fits,
                                  !.mkext.exts = extsb, !.mkext.sb = sb]
    /\ SafeIdle
    /\ WatchIdle

\* check_mkext(caches): the paths are built from caches->mkext->rpath before
\* caches->mkext is tested (lines 730-733), so without an mkext the call
\* reads through a null pointer; a path that does not fit ends the call
Check_mkext ==
    /\ pc = "host"
    /\ pc' = "check_mkext"
    /\ LET m == trace.mkext
       IN  IF ~m.has
           THEN \E crashed \in BOOLEAN :
                    trace' = [trace EXCEPT !.mkext.crashed = crashed]
           ELSE trace' = [trace EXCEPT
                            !.mkext.needsrebuild =
                                m.fits /\ check_mkext(m.exts, m.sb)]
    /\ UNCHANGED <<safeVars, watchVars, force, bootcount, src, stamp, tstamps,
                   up, i, bootupdates, rval, helper, pre, du, k>>

MkextSpec == MkextInit /\ [][Check_mkext]_vars

(* ---- bootroot.c: parseDict ---- *)
\* the keys of bootcaches.plist that parseDict looks up, and one it does not
TopKeys == {"PreBootPaths", "BooterPaths", "PostBootPaths"}
PreKeys == {"AdditionalPaths", "DiskLabel"}
BooterKeys == {"EFIBooter"}
PostKeys == {"AdditionalPaths", "BootConfig", "MKext"}
MkKeys == {"Path", "ExtensionsDir"}
Unknown == "Unknown"

\* well-typed descriptors: a sub-dictionary has keys only if its key is in
\* the dictionary above it; an MKext dictionary has its Path
Descriptors ==
    {d \in [top : SUBSET (TopKeys \cup {Unknown}),
            pre : SUBSET (PreKeys \cup {Unknown}),
            booters : SUBSET (BooterKeys \cup {Unknown}),
            post : SUBSET (PostKeys \cup {Unknown}),
            mk : SUBSET (MkKeys \cup {Unknown})] :
        /\ "PreBootPaths" \notin d.top => d.pre = {}
        /\ "BooterPaths" \notin d.top => d.booters = {}
        /\ "PostBootPaths" \notin d.top => d.post = {}
        /\ "MKext" \notin d.post => d.mk = {}
        /\ "MKext" \in d.post => "Path" \in d.mk}

\* keyCount-- for a key that CFDictionaryGetValue found
Handled(dict, key) == IF key \in dict THEN 1 ELSE 0

\* keyCount at line 293: the keys of the top level and of the three path
\* dictionaries, less one for each key that was looked up and found; the
\* keys of the MKext dictionary are not added
keyCount(d) ==
    Cardinality(d.top)
    + (IF "PreBootPaths" \in d.top
       THEN Cardinality(d.pre) - Handled(d.pre, "AdditionalPaths")
            - Handled(d.pre, "DiskLabel") - 1
       ELSE 0)
    + (IF "BooterPaths" \in d.top
       THEN Cardinality(d.booters) - Handled(d.booters, "EFIBooter") - 1
       ELSE 0)
    + (IF "PostBootPaths" \in d.top
       THEN Cardinality(d.post) - Handled(d.post, "AdditionalPaths")
            - Handled(d.post, "BootConfig") - Handled(d.post, "MKext") - 1
       ELSE 0)

\* a bootcaches.plist read from a volume that has appeared
DictInit ==
    /\ pc = "host"
    /\ force = FALSE
    /\ bootcount = 0
    /\ src = [p \in CPaths |-> SrcTime]
    /\ stamp = [p \in CPaths |-> SrcTime]
    /\ tstamps = [p \in CPaths |-> Captured(NoFile)]
    /\ up = [curBoot |-> FALSE, curRPS |-> "", changestate |-> nothingSerious,
             doRPS |-> FALSE, doMisc |-> FALSE, doBooters |-> FALSE,
             efidstOld |-> FALSE]
    /\ i = 0
    /\ bootupdates = 0
    /\ rval = 0
    /\ helper = NoHelper
    /\ pre = NoHelper
    /\ du = NoDu
    /\ k = 0
    /\ \E d \in Descriptors : trace = [NoTrace EXCEPT !.bcDict = d]
    /\ SafeIdle
    /\ WatchIdle

\* parseDict(bcDict, ...): an allocation or a path that does not fit may
\* fail it; else it returns the caches if keyCount came down to 0
ParseDict ==
    /\ pc = "host"
    /\ pc' = "parseDict"
    /\ \E built \in BOOLEAN :
          trace' = [trace EXCEPT
                      !.caches = built /\ keyCount(trace.bcDict) = 0]
    /\ UNCHANGED <<safeVars, watchVars, force, bootcount, src, stamp, tstamps,
                   up, i, bootupdates, rval, helper, pre, du, k>>

DictSpec == DictInit /\ [][ParseDict]_vars

(* ---- safecalls.c: sdeepmkdir on a path whose components have a type ---- *)
\* the components of the path: 0 is the path itself, j is dirname applied j
\* times; what lies above the last one is a directory
Levels == 0..MaxDepth
FileKinds == {"dir", "file", "none"}

\* below a directory anything, below a file or nothing nothing
PathKinds ==
    {ks \in [Levels -> FileKinds] :
        \A j \in Levels : (j < MaxDepth /\ ks[j + 1] # "dir") => ks[j] = "none"}

KindAt(ks, j) == IF j > MaxDepth THEN "dir" ELSE ks[j]

\* stat(path): the type of what is there, ENOTDIR if a component above it
\* is not a directory, ENOENT if it is missing
StatOf(ks, j) ==
    IF KindAt(ks, j) # "none" THEN KindAt(ks, j)
    ELSE IF \E a \in Levels : a > j /\ ks[a] = "file" THEN "ENOTDIR"
    ELSE "ENOENT"

\* line 349, "sb.st_mode & S_IFDIR == 0": == binds tighter than &, so this
\* is st_mode & 0, false for every file type
NotDirTest(kind) == FALSE

SdeepmkdirInit ==
    /\ pc = "host"
    /\ force = FALSE
    /\ bootcount = 0
    /\ src = [p \in CPaths |-> SrcTime]
    /\ stamp = [p \in CPaths |-> SrcTime]
    /\ tstamps = [p \in CPaths |-> Captured(NoFile)]
    /\ up = [curBoot |-> FALSE, curRPS |-> "", changestate |-> nothingSerious,
             doRPS |-> FALSE, doMisc |-> FALSE, doBooters |-> FALSE,
             efidstOld |-> FALSE]
    /\ i = 0
    /\ bootupdates = 0
    /\ rval = 0
    /\ helper = NoHelper
    /\ pre = NoHelper
    /\ du = NoDu
    /\ k = 0
    /\ \E ks \in PathKinds :
          trace = [NoTrace EXCEPT !.deep.at = "stat", !.deep.kinds = ks,
                                  !.deep.kinds0 = ks]
    /\ SafeIdle
    /\ WatchIdle

DeepFrame == <<safeVars, watchVars, pc, force, bootcount, src, stamp, tstamps,
               up, i, bootupdates, rval, helper, pre, du, k>>

\* sdeepmkdir returns ret from the outermost call
DeepDone(ret, errno) ==
    trace' = [trace EXCEPT !.deep.at = "done", !.deep.ret = ret,
                           !.deep.errno = errno]

\* the call at level j returned 0: the outermost call is over, any other
\* one's caller goes on to its smkdir
DeepReturned0(j) ==
    IF j = 0 THEN DeepDone("ok", "none")
    ELSE trace' = [trace EXCEPT !.deep.at = "smkdir", !.deep.level = j - 1]

\* lines 348-363: stat(path); what exists is the base case unless the test
\* of line 349 fires; ENOENT recurses on dirname(path); any other error
\* is returned as -1 by every caller
DeepStat ==
    /\ trace.deep.at = "stat"
    /\ UNCHANGED DeepFrame
    /\ LET j == trace.deep.level
       IN  \E r \in {StatOf(trace.deep.kinds, j), "EACCES"} :
              IF r \in {"dir", "file"}
              THEN IF NotDirTest(r) THEN DeepDone("ENOTDIR", "none")
                   ELSE DeepReturned0(j)
              ELSE IF r = "ENOENT"
              THEN trace' = [trace EXCEPT !.deep.level = j + 1]
              ELSE DeepDone("-1", r)

\* line 366: smkdir(fdvol, path, mode) makes the directory if its parent is
\* one and the name is free, or fails
DeepSmkdir ==
    /\ trace.deep.at = "smkdir"
    /\ UNCHANGED DeepFrame
    /\ LET j == trace.deep.level
           ks == trace.deep.kinds
       IN  \/ /\ KindAt(ks, j + 1) = "dir"
              /\ ks[j] = "none"
              /\ trace' = [trace EXCEPT
                             !.deep.kinds = [ks EXCEPT ![j] = "dir"],
                             !.deep.at = IF j = 0 THEN "done" ELSE "smkdir",
                             !.deep.ret = IF j = 0 THEN "ok" ELSE @,
                             !.deep.level = IF j = 0 THEN 0 ELSE j - 1]
           \/ DeepDone("-1", "EPERM")

\* another process makes a file or a directory on the path while
\* sdeepmkdir is between two system calls
Meanwhile ==
    /\ trace.deep.at \in {"stat", "smkdir"}
    /\ ~trace.deep.raced
    /\ UNCHANGED DeepFrame
    /\ \E j \in Levels, kind \in {"dir", "file"} :
          /\ trace.deep.kinds[j] = "none"
          /\ KindAt(trace.deep.kinds, j + 1) = "dir"
          /\ trace' = [trace EXCEPT !.deep.kinds[j] = kind,
                                    !.deep.raced = TRUE]

SdeepmkdirNext ==
    \/ DeepStat
    \/ DeepSmkdir
    \/ Meanwhile

SdeepmkdirSpec == SdeepmkdirInit /\ [][SdeepmkdirNext]_vars

(* ---- safecalls.c: the descriptors of one primitive call ---- *)
PrimOps == {"sopen", "smkdir", "srmdir", "sunlink", "srename"}

\* how schdirparent can end: open(parent) fails, spolicy refuses, open(".")
\* fails, fchdir(dirfd) fails, or it returns 0
ChdirOutcomes == {"open", "spolicy", "savedir", "fchdir", "ok"}

\* a process about to call a primitive
FdInit ==
    /\ UpdaterIdle
    /\ cwd \in DirIds
    /\ entries = [d \in DirIds |-> {}]
    /\ sp = NoCall
    /\ job = NoJob
    /\ WatchIdle

FdFrame == <<pc, force, bootcount, src, stamp, tstamps, up, i, bootupdates,
             rval, helper, pre, du, k, entries, sp, job, watchVars>>

\* <primitive>(fdvol, path, ...): savedir = -1, then schdirparent(fdvol,
\* path, &savedir, child), lines 126-161. The finish block closes savedir
\* and then *olddir, the same descriptor, when fchdir failed, and leaves
\* *olddir set; dirfd is closed once if it was opened
Fd_schdirparent ==
    /\ trace.fds.at = "idle"
    /\ UNCHANGED FdFrame
    /\ \E op \in PrimOps, o \in ChdirOutcomes, d \in DirIds :
          /\ o # "ok" => d = cwd
          /\ cwd' = d
          /\ trace' = [trace EXCEPT !.fds =
                 [at |-> IF o = "ok" THEN "op" ELSE "restoredir",
                  op |-> op,
                  cwd0 |-> cwd,
                  failed |-> IF o = "ok" THEN "none" ELSE o,
                  dirOpened |-> o # "open",
                  dirCloses |-> IF o # "open" THEN 1 ELSE 0,
                  saveOpened |-> o \in {"fchdir", "ok"},
                  saveCloses |-> IF o = "fchdir" THEN 2 ELSE 0,
                  savedir |-> o \in {"fchdir", "ok"}]]

\* the primitive's own system call on child
Fd_operation ==
    /\ trace.fds.at = "op"
    /\ UNCHANGED <<FdFrame, cwd>>
    /\ \E ok \in BOOLEAN :
          trace' = [trace EXCEPT
                      !.fds.at = "restoredir",
                      !.fds.failed = IF ok THEN "none" ELSE "op"]

\* RESTOREDIR(savedir), lines 98-100 and 201-211: if savedir != -1,
\* fchdir(savedir), which fails on a descriptor already closed and may
\* fail on an open one, then close(savedir)
Fd_restoredir ==
    /\ trace.fds.at = "restoredir"
    /\ UNCHANGED FdFrame
    /\ IF ~trace.fds.savedir
       THEN /\ cwd' = cwd
            /\ trace' = [trace EXCEPT !.fds.at = "done"]
       ELSE /\ \/ trace.fds.saveCloses = 0 /\ cwd' = trace.fds.cwd0
               \/ cwd' = cwd
            /\ trace' = [trace EXCEPT
                           !.fds.at = "done",
                           !.fds.saveCloses = trace.fds.saveCloses + 1]

FdNext ==
    \/ Fd_schdirparent
    \/ Fd_operation
    \/ Fd_restoredir

FdSpec == FdInit /\ [][FdNext]_vars

(* ---- bootfiles.h: the helper loop's mounts and up.curbootfd ---- *)
\* how mountBoot can end: no DADisk; the mount is refused as busy and
\* unmountBoot then succeeds (mountBoot calls itself again) or fails; it is
\* refused otherwise; mounted but the mount point cannot be read; open of
\* the mount point fails; fstat/fstatfs or the size test fails; success
MountOutcomes == {"nodisk", "busy_retry", "busy_stuck", "dissent", "nopath",
                  "noopen", "nostat", "ok"}

\* close(up->curbootfd) "if (up->curbootfd != -1)": the number stays in
\* up->curbootfd, nothing sets it back to -1
CloseCurbootfd(b) ==
    IF b.fd = "none" THEN b
    ELSE [b EXCEPT !.fd = "closed", !.closes = @ + 1]

\* unmountBoot(up), lines 440-479: bails if there is no curBoot or no
\* curMount; else closes curbootfd and unmounts, by force if need be;
\* unmounted says whether diskarb unmounted the partition. curMount and
\* curBoot are cleared either way
unmountBoot(b, unmounted) ==
    IF ~b.curBoot \/ ~b.curMount
    THEN [b EXCEPT !.curMount = FALSE, !.curBoot = FALSE]
    ELSE [CloseCurbootfd(b) EXCEPT
            !.curMount = FALSE, !.curBoot = FALSE,
            !.mounted = IF unmounted THEN @ \ {b.i} ELSE @]

\* updateBoots is called: up = { -1, "" }; bootcount helpers
BootfdInit ==
    /\ UpdaterIdle
    /\ cwd \in DirIds
    /\ entries = [d \in DirIds |-> {}]
    /\ sp = NoCall
    /\ job = NoJob
    /\ WatchIdle

BootfdFrame == <<pc, force, bootcount, src, stamp, tstamps, up, i,
                 bootupdates, rval, helper, pre, du, k, cwd, entries, sp, job,
                 watchVars>>

\* lines 213-219: no helpers, nothing to do; else the loop is entered
Bfd_enter ==
    /\ trace.boot.at = "idle"
    /\ UNCHANGED BootfdFrame
    /\ \E n \in 0..MaxBoots :
          trace' = [trace EXCEPT
                      !.boot.n = n,
                      !.boot.at = IF n = 0 THEN "finish" ELSE "mountBoot"]

\* mountBoot(&up, i), lines 357-433
Bfd_mountBoot ==
    /\ trace.boot.at = "mountBoot"
    /\ UNCHANGED BootfdFrame
    /\ \E o \in MountOutcomes, unmounted \in BOOLEAN :
        LET b == trace.boot
            \* DADiskCreateFromBSDName succeeded
            b1 == [b EXCEPT !.curBoot = TRUE]
            \* the partition is mounted
            b2 == [b1 EXCEPT !.mounted = @ \cup {b.i}]
            \* up->curMount is filled in
            b3 == [b2 EXCEPT !.curMount = TRUE]
            \* open(up->curMount) succeeded
            b4 == [b3 EXCEPT !.fd = "open", !.closes = 0]
            failed(x) == [x EXCEPT !.at = "bootfail"]
        IN  CASE o = "nodisk" ->
                   /\ unmounted
                   /\ trace' = [trace EXCEPT !.boot = failed(b)]
              [] o = "busy_retry" ->
                   \* curMount[0] = '\1', unmountBoot returns 0, "try again"
                   /\ unmounted
                   /\ ~b.retried
                   /\ trace' = [trace EXCEPT !.boot =
                        [unmountBoot([b1 EXCEPT !.curMount = TRUE], TRUE)
                           EXCEPT !.retried = TRUE]]
              [] o = "busy_stuck" ->
                   /\ ~unmounted
                   /\ trace' = [trace EXCEPT !.boot =
                        failed(unmountBoot([b1 EXCEPT !.curMount = TRUE],
                                           FALSE))]
              [] o = "dissent" ->
                   /\ unmounted
                   /\ trace' = [trace EXCEPT !.boot =
                                  failed(unmountBoot(b1, TRUE))]
              [] o = "nopath" ->
                   \* nothing is unmounted: up->curMount is empty
                   /\ unmounted
                   /\ trace' = [trace EXCEPT !.boot =
                                  failed(unmountBoot(b2, TRUE))]
              [] o = "noopen" ->
                   trace' = [trace EXCEPT !.boot =
                       failed(unmountBoot([b3 EXCEPT !.fd = "none"],
                                          unmounted))]
              [] o = "nostat" ->
                   trace' = [trace EXCEPT !.boot =
                               failed(unmountBoot(b4, unmounted))]
              [] OTHER ->
                   /\ unmounted
                   /\ trace' = [trace EXCEPT !.boot =
                                  [b4 EXCEPT !.at = "update"]]

\* lines 241-258: the copies and activations on the mounted helper, each
\* through up.curbootfd; bootupdates++ if none failed
Bfd_update ==
    /\ trace.boot.at = "update"
    /\ UNCHANGED BootfdFrame
    /\ \E ok \in BOOLEAN :
          trace' = [trace EXCEPT
                      !.boot.at = "bootfail",
                      !.boot.updated = IF ok THEN @ + 1 ELSE @]

\* bootfail, lines 260-271: revertState, nukeFallbacks, unmountBoot, i++
Bfd_bootfail ==
    /\ trace.boot.at = "bootfail"
    /\ UNCHANGED BootfdFrame
    /\ \E unmounted \in BOOLEAN :
        LET b == unmountBoot(trace.boot, unmounted)
        IN  /\ ~(trace.boot.curBoot /\ trace.boot.curMount) => unmounted
            /\ trace' = [trace EXCEPT !.boot =
                 [b EXCEPT !.i = @ + 1,
                           !.retried = FALSE,
                           !.at = IF b.i + 1 < b.n THEN "mountBoot"
                                  ELSE "finish"]]

\* finish, line 284: "if (up.curbootfd != -1) close(up.curbootfd);"
Bfd_finish ==
    /\ trace.boot.at = "finish"
    /\ UNCHANGED BootfdFrame
    /\ trace' = [trace EXCEPT !.boot =
                   [CloseCurbootfd(trace.boot) EXCEPT !.at = "done"]]

BootfdNext ==
    \/ Bfd_enter
    \/ Bfd_mountBoot
    \/ Bfd_update
    \/ Bfd_bootfail
    \/ Bfd_finish

BootfdSpec == BootfdInit /\ [][BootfdNext]_vars

(* ---- bootfiles.h: updateBoots and the volume lock ---- *)
\* updateBoots going on to the helpers whether or not the lock was re-taken
C39_IgnoreRetake(took) == "bless"

\* line 198: "if (takeVolumeForPaths(volRoot, filec, files)) goto finish;"
AfterRetake(took) == IF took THEN "bless" ELSE "finish"

\* putVolumeForPath(volRoot, status): the lock, if held, is given up with
\* this status ("handles not locked")
putVolumeForPath(l, status) ==
    [l EXCEPT !.held = FALSE, !.puts = Append(@, status)]

\* "goto finish" with this rval
GotoFinish(l, r) == [l EXCEPT !.at = "finish", !.rval = r]

VlockInit ==
    /\ UpdaterIdle
    /\ cwd \in DirIds
    /\ entries = [d \in DirIds |-> {}]
    /\ sp = NoCall
    /\ job = NoJob
    /\ WatchIdle

\* lines 175-176: rval = 0; takeVolumeForPaths
Ub_take ==
    /\ trace.vlock.at = "idle"
    /\ UNCHANGED BootfdFrame
    /\ \E n \in 0..MaxBoots, took \in BOOLEAN :
          trace' = [trace EXCEPT !.vlock =
             IF took THEN [@ EXCEPT !.n = n, !.held = TRUE,
                                    !.at = "readCaches"]
             ELSE GotoFinish([@ EXCEPT !.n = n], 0)]

\* lines 177-178: readCaches; lines 189-199: rval = ELAST + 1; if
\* check_mkext says the mkext is stale the lock is given up with
\* EX_TEMPFAIL
Ub_check_mkext ==
    /\ trace.vlock.at = "readCaches"
    /\ UNCHANGED BootfdFrame
    /\ \E caches \in BOOLEAN, stale \in BOOLEAN :
          trace' = [trace EXCEPT !.vlock =
             IF ~caches THEN GotoFinish(@, 0)
             ELSE IF stale
             THEN [putVolumeForPath(@, EX_TEMPFAIL) EXCEPT
                      !.rval = 1, !.at = "rebuild_mkext"]
             ELSE [@ EXCEPT !.rval = 1, !.at = "bless"]]

\* lines 195-198: rebuild_mkext(up.caches, true), waiting for the child;
\* then the lock is taken again
Ub_rebuild_mkext ==
    /\ trace.vlock.at = "rebuild_mkext"
    /\ UNCHANGED BootfdFrame
    /\ \E built \in BOOLEAN, took \in BOOLEAN :
        LET l == [trace.vlock EXCEPT
                    !.built = IF trace.vlock.held THEN "locked"
                              ELSE "unlocked"]
        IN  /\ ~built => ~took
            /\ trace' = [trace EXCEPT !.vlock =
                 IF ~built THEN GotoFinish(l, 1)
                 ELSE [l EXCEPT !.held = took, !.at = AfterRetake(took)]]

\* lines 201-236: the helpers' names from bless, needUpdates, the diskarb
\* session. No helpers, or nothing out of date and no force: rval = 0
Ub_analyze ==
    /\ trace.vlock.at = "bless"
    /\ UNCHANGED BootfdFrame
    /\ \E o \in {"failed", "uptodate", "go"} :
          trace' = [trace EXCEPT !.vlock =
             IF trace.vlock.n = 0 THEN GotoFinish(@, IF o = "failed" THEN 1 ELSE 0)
             ELSE IF o = "failed" THEN GotoFinish(@, 1)
             ELSE IF o = "uptodate" THEN GotoFinish(@, 0)
             ELSE [@ EXCEPT !.at = "loop"]]

\* lines 238-272, one helper: mounted, written to, unmounted
Ub_helper ==
    /\ trace.vlock.at = "loop"
    /\ UNCHANGED BootfdFrame
    /\ \E ok \in BOOLEAN :
          trace' = [trace EXCEPT !.vlock =
             [@ EXCEPT !.unlocked = @ \/ ~trace.vlock.held,
                       !.updated = IF ok THEN @ + 1 ELSE @,
                       !.i = @ + 1,
                       !.at = IF trace.vlock.i + 1 < trace.vlock.n
                              THEN "loop" ELSE "stamps"]]

\* lines 273-278: applyStamps if every helper was updated
Ub_applyStamps ==
    /\ trace.vlock.at = "stamps"
    /\ UNCHANGED BootfdFrame
    /\ \E ok \in BOOLEAN :
          trace' = [trace EXCEPT !.vlock =
             IF trace.vlock.updated # trace.vlock.n
             THEN GotoFinish(@, 1)
             ELSE GotoFinish([@ EXCEPT
                                !.stamped = TRUE,
                                !.unlocked = @ \/ ~trace.vlock.held],
                             IF ok THEN 0 ELSE 1)]

\* finish, lines 280-281: putVolumeForPath(volRoot, rval)
Ub_finish ==
    /\ trace.vlock.at = "finish"
    /\ UNCHANGED BootfdFrame
    /\ trace' = [trace EXCEPT !.vlock =
                   [putVolumeForPath(@, trace.vlock.rval) EXCEPT
                      !.at = "done"]]

VlockNext ==
    \/ Ub_take
    \/ Ub_check_mkext
    \/ Ub_rebuild_mkext
    \/ Ub_analyze
    \/ Ub_helper
    \/ Ub_applyStamps
    \/ Ub_finish

VlockSpec == VlockInit /\ [][VlockNext]_vars

(* ---- watchvol.c: callbacks that refer to a destroyed watchedVol ---- *)
\* trace.gone holds pairs <<volume, port>> and volumes
PortsOf(set, v) == {q[2] : q \in {x \in set : x[1] = v}}

\* the watchedVol of v is destroyed: the CFMachPorts made for its locks stay
\* in the run loop (cleanupLock releases the lock and the send right, nothing
\* invalidates the CFMachPort), with the freed watchedVol as their info
Destroyed(g, v) ==
    [g EXCEPT !.stale = @ \cup {q \in g.ports : q[1] = v},
              !.ports = {q \in @ : q[1] # v},
              !.reused = @ \ {v}]

\* the volume that comes and goes
GoneVols == {"disk0s2"}

GoneFrame == <<safeVars, sRebootLock, burst, pc, force, bootcount, src, stamp,
               tstamps, up, i, bootupdates, rval, helper, pre, du, k>>

\* vol_disappeared(disk), lines 608-645; a notification of one of its
\* paths may already be in kextd's queue
Gone_vol_disappeared ==
    \E v \in GoneVols \cap Watched(sFsysWatchDict), inFlight \in BOOLEAN :
        /\ sFsysWatchDict' = vol_gone(sFsysWatchDict, v)
        /\ trace' = [trace EXCEPT !.gone =
              [Destroyed(@, v) EXCEPT
                 !.queued = IF inFlight THEN @ \cup {v} ELSE @]]
        /\ last' = [Called("vol_disappeared") EXCEPT !.vol = v]
        /\ UNCHANGED GoneFrame

\* vol_appeared(disk): create_watchedVol's calloc may hand out the block
\* the destroyed watchedVol was in
Gone_vol_appeared ==
    \E v \in GoneVols, sameBlock \in BOOLEAN :
    \E a \in vol_appeared_outcomes(sFsysWatchDict, v) :
        LET g0 == IF a.dict = sFsysWatchDict THEN trace.gone
                  ELSE Destroyed(trace.gone, v)
            fresh == a.entered /\ a.dict # sFsysWatchDict
        IN  /\ sameBlock => fresh /\ PortsOf(g0.stale, v) # {}
            /\ sFsysWatchDict' = a.dict
            /\ trace' = [trace EXCEPT !.gone =
                  [g0 EXCEPT !.reused = IF sameBlock THEN @ \cup {v} ELSE @]]
            /\ last' = [Called("vol_appeared") EXCEPT !.vol = v]
            /\ UNCHANGED GoneFrame

\* _kextmanager_lock_volume for root while nothing is rebooting, lines
\* 1069-1094; lock_vol makes a CFMachPort on the client's port
Gone_lock_volume ==
    \E client \in Clients, v \in GoneVols :
        LET f == Frame("lock_volume", v, client)
            w == sFsysWatchDict[v]
        IN  /\ UNCHANGED GoneFrame
            /\ IF ~w.watched
               THEN /\ last' = [f EXCEPT !.kr = "KERN_SUCCESS",
                                         !.result = "ENOENT"]
                    /\ UNCHANGED <<sFsysWatchDict, trace>>
               ELSE IF w.lock # NULL
               THEN /\ last' = [f EXCEPT !.kr = "KERN_SUCCESS",
                                         !.result = "EBUSY"]
                    /\ UNCHANGED <<sFsysWatchDict, trace>>
               ELSE \E made \in BOOLEAN :
                    LET l == lock_vol(w, client, made)
                    IN  /\ last' = IF made
                                   THEN [f EXCEPT !.kr = "KERN_SUCCESS",
                                                  !.result = "0"]
                                   ELSE [f EXCEPT !.kr = "KERN_FAILURE"]
                        /\ sFsysWatchDict' =
                              [sFsysWatchDict EXCEPT ![v] = l.w]
                        /\ trace' = IF made
                                    THEN [trace EXCEPT !.gone.ports =
                                            @ \cup {<<v, client>>}]
                                    ELSE trace

\* _kextmanager_unlock_volume for root, lines 1128-1167
Gone_unlock_volume ==
    \E client \in Clients, v \in GoneVols :
        LET f == Frame("unlock_volume", v, client)
            w == sFsysWatchDict[v]
        IN  /\ UNCHANGED <<GoneFrame, trace>>
            /\ IF ~unlock_allowed(w, client)
               THEN /\ last' = [f EXCEPT !.kr = "KERN_FAILURE",
                                         !.result = "refused"]
                    /\ UNCHANGED sFsysWatchDict
               ELSE /\ last' = [f EXCEPT !.kr = "KERN_SUCCESS",
                                         !.result = "0"]
                    /\ sFsysWatchDict' =
                         [sFsysWatchDict EXCEPT
                            ![v].errcount = unlock_errcount(@, 0),
                            ![v].disableOwners = FALSE,
                            ![v].lock = NULL]

\* lock_died(p, info) for a CFMachPort whose info is the watchedVol v has
\* now: lines 1199-1217
Gone_lock_died ==
    \E q \in trace.gone.ports :
        /\ sFsysWatchDict' =
              [sFsysWatchDict EXCEPT ![q[1]] = lock_died_vol(@, TRUE)]
        /\ trace' = [trace EXCEPT !.gone.ports = @ \ {q}]
        /\ last' = [Frame("lock_died", q[1], q[2]) EXCEPT !.result = "current"]
        /\ UNCHANGED GoneFrame

\* lock_died(p, info) for a CFMachPort whose info is a destroyed watchedVol:
\* "CFDictionaryGetCountOfValue(sFsysWatchDict, watched) == 0" compares the
\* dangling pointer with the values of the dictionary, and finds one if a
\* watchedVol made since lies at that address
Gone_lock_died_late ==
    \E q \in trace.gone.stale :
        /\ sFsysWatchDict' =
              IF q[1] \in trace.gone.reused
              THEN [sFsysWatchDict EXCEPT ![q[1]] = lock_died_vol(@, TRUE)]
              ELSE sFsysWatchDict
        /\ trace' = [trace EXCEPT !.gone.stale = @ \ {q}]
        /\ last' = [Frame("lock_died", q[1], q[2]) EXCEPT !.result = "late"]
        /\ UNCHANGED GoneFrame

\* fsys_changed for a notification sent before the tokens were cancelled:
\* notify_get_state fails for the cancelled token, or hands back the state
\* that was set, the pointer to the destroyed watchedVol, which lines
\* 722-737 look up among the dictionary's values like lock_died does
Gone_fsys_changed_late ==
    \E v \in trace.gone.queued, gotState \in BOOLEAN :
        /\ sFsysWatchDict' =
              IF gotState /\ v \in trace.gone.reused
              THEN [sFsysWatchDict EXCEPT
                      ![v].delayer = SettleTimer(sFsysWatchDict[v])]
              ELSE sFsysWatchDict
        /\ trace' = [trace EXCEPT !.gone.queued = @ \ {v}]
        /\ last' = [Frame("fsys_changed", v, NULL) EXCEPT !.result = "late"]
        /\ UNCHANGED GoneFrame

GoneNext ==
    \/ Gone_vol_appeared
    \/ Gone_vol_disappeared
    \/ Gone_lock_volume
    \/ Gone_unlock_volume
    \/ Gone_lock_died
    \/ Gone_lock_died_late
    \/ Gone_fsys_changed_late

GoneSpec == WatchInit /\ [][GoneNext]_vars

(* ---- watchvol.c: check_rebuild, one call ---- *)
\* how needUpdates ends: it fails, or it reports through *any
NeedEnds == {"error", "fresh", "outofdate"}

\* lines 885-888 with a needUpdates that treats an error as fresh content
C40_ErrorMeansFresh(need) == need = "outofdate"

\* lines 885-888: anyOutOfDate starts true, needUpdates writes it only when
\* it succeeds, and a failure sets it to true again
AnyOutOfDate(need) == need # "fresh"

\* lines 859-893 with force false: the children the call forks. A stale
\* mkext takes the first branch whatever the helpers look like; the second
\* branch needs the bless dictionary with both kinds of partitions
Children(c) ==
    IF c.mkext
    THEN IF c.forks THEN {"kextcache -m"} ELSE {}
    ELSE IF c.binfo /\ c.hasBoots /\ c.isGPT /\ AnyOutOfDate(c.need) /\ c.forks
         THEN {"kextcache -u"}
         ELSE {}

\* the call as the watched volume sees it
RebuildOutcome(c) ==
    IF c.mkext /\ ~c.forks THEN "mkext_failed"
    ELSE IF Children(c) # {} THEN "launched"
    ELSE "none"

\* a watched volume, with or without a pending settle timer, and what the
\* call will find
CheckInit ==
    /\ pc = "host"
    /\ force = FALSE
    /\ bootcount = 0
    /\ src = [p \in CPaths |-> SrcTime]
    /\ stamp = [p \in CPaths |-> SrcTime]
    /\ tstamps = [p \in CPaths |-> Captured(NoFile)]
    /\ up = [curBoot |-> FALSE, curRPS |-> "", changestate |-> nothingSerious,
             doRPS |-> FALSE, doMisc |-> FALSE, doBooters |-> FALSE,
             efidstOld |-> FALSE]
    /\ i = 0
    /\ bootupdates = 0
    /\ rval = 0
    /\ helper = NoHelper
    /\ pre = NoHelper
    /\ du = NoDu
    /\ k = 0
    /\ \E pending \in BOOLEAN, errs \in 0..1 :
          sFsysWatchDict =
              [v \in Vols |->
                  IF v = "disk0s2"
                  THEN [NewVol EXCEPT
                          !.delayer = IF pending THEN SettleTimer(NewVol)
                                      ELSE {},
                          !.errcount = errs]
                  ELSE NoVol]
    /\ \E mk \in BOOLEAN, forks \in BOOLEAN, binfo \in BOOLEAN,
          hasBoots \in BOOLEAN, isGPT \in BOOLEAN, need \in NeedEnds,
          stale \in BOOLEAN :
          trace = [NoTrace EXCEPT
                     !.cr.mkext = mk, !.cr.forks = forks, !.cr.binfo = binfo,
                     !.cr.hasBoots = hasBoots, !.cr.isGPT = isGPT,
                     !.cr.need = need, !.cr.stale = stale]
    /\ sRebootLock = NULL
    /\ last = NoLast
    /\ burst = NoBurst
    /\ SafeIdle

\* check_rebuild(watched, false)
Check_rebuild ==
    /\ pc = "host"
    /\ pc' = "check_rebuild"
    /\ LET w == sFsysWatchDict["disk0s2"]
           r == check_rebuild(w, RebuildOutcome(trace.cr))
       IN  /\ sFsysWatchDict' = [sFsysWatchDict EXCEPT !["disk0s2"] = r.w]
           /\ trace' = [trace EXCEPT !.cr.at = "returned", !.cr.vol = w,
                                     !.cr.children = Children(trace.cr),
                                     !.cr.launched = r.launched]
    /\ UNCHANGED <<safeVars, sRebootLock, last, burst, force, bootcount, src,
                   stamp, tstamps, up, i, bootupdates, rval, helper, pre, du,
                   k>>

CheckSpec == CheckInit /\ [][Check_rebuild]_vars

(* ---- watchvol.c: kextd_stop_volwatch ---- *)
\* kextd_stop_volwatch: the callbacks are unregistered and free_dict_item
\* hands every value of sFsysWatchDict to destroy_watchedVol, which cancels
\* its tokens and destroys its caches; the dictionary is released. Nothing
\* invalidates a watchedVol's delayer (destroy_watchedVol only says
\* "assert that ->delayer and ->lock have already been cleaned up"), so a
\* pending timer stays in the run loop with the destroyed watchedVol as
\* its info
kextd_stop_volwatch ==
    /\ sFsysWatchDict' = [v \in Vols |-> NoVol]
    /\ trace' = [trace EXCEPT
                   !.orphans = @ \cup {v \in Watched(sFsysWatchDict) :
                                          sFsysWatchDict[v].delayer # {}}]
    /\ burst' = NoBurst
    /\ last' = Called("kextd_stop_volwatch")
    /\ UNCHANGED <<safeVars, sRebootLock, pc, force, bootcount, src, stamp,
                   tstamps, up, i, bootupdates, rval, helper, pre, du, k>>

\* the run loop serves a timer that outlived its watchedVol: check_now is
\* called with the destroyed watchedVol, which is a value of no dictionary
check_now_destroyed ==
    \E v \in trace.orphans :
        /\ trace' = [trace EXCEPT !.orphans = @ \ {v}]
        /\ last' = [Called("check_now") EXCEPT !.vol = v,
                                               !.result = "destroyed"]
        /\ UNCHANGED <<safeVars, sFsysWatchDict, sRebootLock, burst, pc,
                       force, bootcount, src, stamp, tstamps, up, i,
                       bootupdates, rval, helper, pre, du, k>>

\* the settle timer while kextd stops watching, and watches again
\* (kextd_watch_volumes) when vol_appeared is next called
StopNext ==
    \/ vol_appeared
    \/ vol_disappeared
    \/ fsys_changed
    \/ check_now
    \/ Tick
    \/ kextd_stop_volwatch
    \/ check_now_destroyed

StopSpec == WatchInit /\ [][StopNext]_vars

(* ---- the RPS rotation: what the properties speak of ---- *)
\* the RPS directories on the helper
Present(rps) == {s \in Slots : rps[s].exists}

\* the directory FindRPSDir designates current: the one the booter reads
Current(rps) == FindRPSDir(rps).cur

\* this helper's update is over: revertState (if it failed), nukeFallbacks
\* and unmountBoot have run
HelperDone == pc = "loop"

OneOrTwo(rps) == Cardinality(Present(rps)) \in {1, 2}

\* a directory with every RPS path, all of one generation
Whole(d) ==
    /\ Populated(d)
    /\ \A j \in RpsIdx : d.files[j] = d.files[BootConfigIdx]

\* a directory as ucopyRPS returning 0 leaves it: nothing of an earlier
\* generation in it, every path scopyfile copies is there and new; Boot.plist
\* is there and new unless insertUUID failed
StagedContent(d) ==
    /\ d.exists
    /\ \A j \in RpsIdx :
          IF j = BootConfigIdx THEN d.files[j] \in {"new", "none", "part"}
          ELSE d.files[j] = "new"

\* the positions of updateBoots between ucopyRPS returning and activateRPS
BeforeActivateRPS ==
    pc \in {"ucopyMisc", "nukeLabels", "ucopyBooters", "activateBooters",
            "activateRPS"}

(* ---- C1 ---- *)
\* C1, as stated: when the update of a helper has failed, at whichever step,
\* then once revertState and nukeFallbacks have run the current RPS directory
\* is the directory that was current before the update, with the contents it
\* had then.
C1_FailureKeepsCurrent ==
    (HelperDone /\ ~trace.ok /\ Present(pre.rps) # {})
        => /\ Current(helper.rps) = Current(pre.rps)
           /\ helper.rps[Current(pre.rps)] = pre.rps[Current(pre.rps)]

\* the update of a helper that had R alone failed in activateMisc, after
\* activateRPS: the new generation, in P, is current and R is gone
C1_FailedAfterRename ==
    /\ HelperDone /\ ~trace.ok
    /\ trace.failedIn = "activateMisc"
    /\ Present(pre.rps) = {"R"}
    /\ Present(helper.rps) = {"P"}
    /\ \A j \in RpsIdx : helper.rps["P"].files[j] = "new"

C3_CurrentAlwaysWhole ==
    (up.curBoot /\ up.doRPS /\ OneOrTwo(pre.rps))
        => Whole(helper.rps[Current(helper.rps)])

\* activateRPS has made current a directory whose Boot.plist insertUUID
\* failed to write
C3_CurrentLacksBootConfig ==
    /\ up.curBoot /\ up.doRPS /\ OneOrTwo(pre.rps)
    /\ trace.renamed
    /\ Current(helper.rps) # Current(pre.rps)
    /\ helper.rps[Current(helper.rps)].files[BootConfigIdx] = "none"

(* ---- C5 ---- *)
\* C5: after a successful update of a helper whose RPS content was stale and
\* which had at least one RPS directory, the current directory is one of R,
\* P, S and is not the directory that was current before the update.
C5_CurrentAdvances ==
    (HelperDone /\ trace.ok /\ up.doRPS /\ Present(pre.rps) # {})
        => /\ Current(helper.rps) \in Slots
           /\ helper.rps[Current(helper.rps)].exists
           /\ Current(helper.rps) # Current(pre.rps)

\* a helper that had two RPS directories has been updated
C5_UpdatedFromTwo ==
    /\ HelperDone /\ trace.ok /\ up.doRPS
    /\ Cardinality(Present(pre.rps)) = 2
    /\ StagedContent(helper.rps[Current(helper.rps)])

C7_Row(c, n, p) == [cur |-> c, next |-> n, prev |-> p]

C7_Table(have) ==
    CASE have = {"R", "P", "S"} -> C7_Row("R", "P", "S")
      [] have = {"R", "P"}      -> C7_Row("P", "S", "R")
      [] have = {"R", "S"}      -> C7_Row("R", "P", "S")
      [] have = {"P", "S"}      -> C7_Row("S", "R", "P")
      [] have = {"R"}           -> C7_Row("R", "P", "S")
      [] have = {"P"}           -> C7_Row("P", "S", "R")
      [] have = {"S"}           -> C7_Row("S", "R", "P")
      [] have = {}              -> C7_Row("R", "P", "S")

\* the cyclic order R -> P -> S -> R
C7_Succ(s) == IF s = "R" THEN "P" ELSE IF s = "P" THEN "S" ELSE "R"

\* C7: for whichever of R, P, S exist on the helper, FindRPSDir returns the
\* (current, next, previous) of the claim's table; the three are distinct
\* and follow the cyclic order; with exactly two directories, next is the
\* missing one.
C7_FindRPSDirTable ==
    LET f == FindRPSDir(helper.rps)
        have == Present(helper.rps)
    IN  /\ f = C7_Table(have)
        /\ {f.cur, f.next, f.prev} = Slots
        /\ f.next = C7_Succ(f.cur) /\ f.prev = C7_Succ(f.next)
        /\ Cardinality(have) = 2 => f.next \notin have

\* activateRPS is about to call FindRPSDir on a helper with P and S
C7_SeesPAndS ==
    /\ pc = "activateRPS"
    /\ Present(helper.rps) = {"P", "S"}
    /\ FindRPSDir(helper.rps).next = "R"

(* ---- C8 ---- *)
\* C8, as stated: after a successful update of a helper whose RPS content
\* was stale and which had one or two RPS directories, exactly one RPS
\* directory remains and it holds the newly staged content; from R alone,
\* what remains is P.
C8_OneDirectoryRemains ==
    (HelperDone /\ trace.ok /\ up.doRPS /\ OneOrTwo(pre.rps))
        => /\ Cardinality(Present(helper.rps)) = 1
           /\ StagedContent(helper.rps[Current(helper.rps)])
           /\ Present(pre.rps) = {"R"} => Present(helper.rps) = {"P"}

\* C8, amended: after such an update the current directory holds the
\* newly staged content, and it is the only RPS directory unless the deep
\* unlink of nukeFallbacks failed, which leaves the previous directory next
\* to it; from R alone, the current directory is P.
C8_OneDirectoryUnlessUntidy ==
    (HelperDone /\ trace.ok /\ up.doRPS /\ OneOrTwo(pre.rps))
        => /\ StagedContent(helper.rps[Current(helper.rps)])
           /\ \/ Present(helper.rps) = {Current(helper.rps)}
              \/ /\ trace.untidy
                 /\ Present(helper.rps) = {Current(helper.rps), trace.nuked}
           /\ Present(pre.rps) = {"R"} => Current(helper.rps) = "P"

\* updated from R alone: P is what remains
C8_FromRToP ==
    /\ HelperDone /\ trace.ok /\ up.doRPS
    /\ Present(pre.rps) = {"R"}
    /\ Present(helper.rps) = {"P"}
    /\ trace.nuked = "R"

(* ---- C9 ---- *)
\* C9, as stated: a successful update of a helper that had R and P stages
\* into S, deletes P and ends with R and S.
C9_FromRPToRS ==
    (HelperDone /\ trace.ok /\ up.doRPS /\ Present(pre.rps) = {"R", "P"})
        => /\ trace.staged = "S"
           /\ trace.nuked = "P"
           /\ Present(helper.rps) = {"R", "S"}

\* C9, amended: a successful update of a helper that had R and P stages
\* into R (deep-unlinking the old R), renames R to S, deep-unlinks P and
\* ends with S current, holding the new content, and alone unless that
\* deep unlink failed.
C9_FromRPToS ==
    (HelperDone /\ trace.ok /\ up.doRPS /\ Present(pre.rps) = {"R", "P"})
        => /\ trace.staged = "R"
           /\ trace.renamed
           /\ trace.nuked = "P"
           /\ Current(helper.rps) = "S"
           /\ StagedContent(helper.rps["S"])
           /\ \/ Present(helper.rps) = {"S"}
              \/ trace.untidy /\ Present(helper.rps) = {"P", "S"}

\* updated from R and P: S alone remains
C9_EndsWithS ==
    /\ HelperDone /\ trace.ok /\ up.doRPS
    /\ Present(pre.rps) = {"R", "P"}
    /\ Present(helper.rps) = {"S"}

C4_MutationOnlyInVerifiedDir ==
    /\ sp.mutated # 0
          => /\ sp.checked = sp.mutated
             /\ st_dev(sp.mutated) = st_dev(sp.scope)
             /\ sp.mutName \in {sp.child, sp.newname}
    /\ sp.mismatch
          => /\ sp.mutated = 0
             /\ sp.at = "return" => sp.ret # "ok"

\* sdeepunlink has removed a name from a directory on the scope's device
\* that is neither the scope directory nor where the process started
C4_DeepUnlinkRemoved ==
    /\ job.name = "sdeepunlink"
    /\ sp.op = "sunlink" /\ sp.at = "return"
    /\ sp.mutated # 0 /\ sp.mutated # sp.scope /\ sp.mutated # job.home
    /\ sp.child \notin entries[sp.mutated]

(* ---- C11 ---- *)
\* revertState has just run for this helper
Reverted == pc = "nukeFallbacks"

\* C11: after revertState, a helper that had a booter and whose update failed
\* with changestate at or beyond copyingEFIBooter has that booter at the
\* booter path again, and if changestate had reached activatedBooters the
\* helper is blessed for that booter; with changestate at nukedLabels the
\* booter, its .old and the bless are as they were.
C11_RevertRestoresBooter ==
    Reverted =>
        /\ (trace.revertedFrom >= copyingEFIBooter /\ pre.efi # "none")
               => helper.efi = pre.efi
        /\ (trace.revertedFrom = activatedBooters /\ pre.efi # "none")
               => helper.blessed = pre.efi
        /\ trace.revertedFrom = nukedLabels
               => /\ helper.efi = pre.efi
                  /\ helper.efiOld = pre.efiOld
                  /\ helper.blessed = pre.blessed

\* ucopyBooters failed in renaming the booter to .old, and revertState has
\* unlinked the booter with no .old to put back: the helper has no booter
C11_RevertUnlinkedBooter ==
    /\ Reverted
    /\ trace.failedIn = "ucopyBooters"
    /\ trace.revertedFrom = copyingEFIBooter
    /\ pre.efi # "none"
    /\ helper.efi = "none" /\ helper.efiOld = "none"

(* ---- C12 ---- *)
\* the settle timer of the volume whose burst is under watch
BurstTimer == sFsysWatchDict[burst.vol].delayer

\* what a burst has had of check_rebuild: none yet and the timer set for
\* kWatchSettleTime after the last notification, or one call, made by
\* check_now at that time
OneCheckWhenSettled ==
    /\ burst.calls <= 1
    /\ ~burst.early
    /\ burst.calls = 0 => BurstTimer = {kWatchSettleTime - burst.since}
    /\ burst.calls = 1 => BurstTimer = {}

HolderOfVolumeDied ==
    /\ last.op = "lock_died"
    /\ last.vol \in Vols
    /\ last.w0.lock # NULL
    /\ last.w0.lock = last.client

\* lock_died has just run for the port of the client that held the reboot lock
HolderOfRebootLockDied ==
    /\ last.op = "lock_died"
    /\ last.vol = "sRebootLock"
    /\ last.reboot # NULL
    /\ last.reboot = last.client

\* _kextmanager_lock_volume would give volume v's lock to a root client
VolumeLockFree(v) ==
    /\ sFsysWatchDict[v].watched
    /\ sFsysWatchDict[v].lock = NULL
    /\ ~DenyNewLocks

\* C13: when the endpoint that holds a volume's lock, or the reboot lock, is
\* invalidated, then once lock_died has run that lock is not held and another
\* client can acquire it.
C13_DeadHolderReleases ==
    /\ HolderOfVolumeDied => VolumeLockFree(last.vol)
    /\ HolderOfRebootLockDied => sRebootLock = NULL

\* the holder of a volume's lock died and the volume is unlocked
C13_VolumeHolderDied ==
    /\ HolderOfVolumeDied
    /\ sFsysWatchDict[last.vol].lock = NULL

(* ---- C14 ---- *)
\* C14, as stated: when the client that holds a volume's lock dies without
\* unlocking, lock_died clears the lock and adds one to the volume's error
\* count (0 becomes 1 at the first such crash).
C14_CrashCountsError ==
    HolderOfVolumeDied =>
        /\ sFsysWatchDict[last.vol].lock = NULL
        /\ sFsysWatchDict[last.vol].errcount = last.w0.errcount + 1

\* the first crash of a lock holder: the lock is cleared, the count still 0
C14_FirstCrashNotCounted ==
    /\ HolderOfVolumeDied
    /\ last.w0.errcount = 0
    /\ sFsysWatchDict[last.vol].lock = NULL
    /\ sFsysWatchDict[last.vol].errcount = 0

(* ---- C15 ---- *)
\* _kextmanager_lock_reboot has just run
RebootLockAsked == last.op = "lock_reboot"

\* ... and gave the reboot lock to its client
RebootLockGranted ==
    /\ RebootLockAsked
    /\ last.kr = "KERN_SUCCESS"
    /\ last.result = "0"

\* C15, as stated: _kextmanager_lock_reboot grants the reboot lock only if
\* no reboot lock is held, no watched volume is locked and check_rebuild
\* launched no rebuild during the request for a watched volume whose error
\* count is below 5, volumes newly picked up by reconsiderVolumes included;
\* otherwise (for a root client, the lock's port permitting) it returns busy
\* and the request leaves the reboot lock as it was.
C15_GrantOnlyWhenIdle ==
    RebootLockAsked =>
        IF RebootLockGranted
        THEN /\ last.reboot = NULL
             /\ Locked(sFsysWatchDict) = {}
             /\ last.launched = {}
             /\ sRebootLock = last.client
        ELSE /\ last.result \in {"EBUSY", "EPERM"} \/ last.kr = "KERN_FAILURE"
             /\ sRebootLock = last.reboot

\* the reboot lock was granted by a request during which check_rebuild
\* launched a rebuild of a volume that request had just picked up
C15_GrantedAfterLaunch ==
    /\ RebootLockGranted
    /\ last.launched # {}
    /\ \A v \in last.launched : sFsysWatchDict[v].errcount < GIVEUPTHRESH

(* ---- C16 ---- *)
\* the watched volumes whose error count has reached GIVEUPTHRESH, and those
\* of them that are not locked
Failing == {v \in Vols : /\ sFsysWatchDict[v].watched
                         /\ sFsysWatchDict[v].errcount >= GIVEUPTHRESH}
FailingUnlocked == {v \in Failing : sFsysWatchDict[v].lock = NULL}

\* this step is a _kextmanager_lock_reboot of a root client that found the
\* reboot lock free and went over the volumes
RebootWalk ==
    /\ last'.op = "lock_reboot"
    /\ last'.result # "EPERM"
    /\ sRebootLock = NULL

\* what the request does with the volumes of G, which it is to skip:
\* check_rebuild is not called for them and they stay as they were; busy is
\* returned only if a volume outside G is locked or had a rebuild launched;
\* and if no volume outside G is locked or had one launched, the lock is
\* granted (or its port could not be made)
SkipsAll(G) ==
    /\ G \cap (last'.scanned \cup last'.launched) = {}
    /\ \A v \in G : sFsysWatchDict'[v] = sFsysWatchDict[v]
    /\ last'.result = "EBUSY" =>
           (Locked(sFsysWatchDict) \cup last'.launched) \ G # {}
    /\ (Locked(sFsysWatchDict) \cup last'.launched) \ G = {} =>
           \/ last'.result = "0" /\ sRebootLock' = last'.client
           \/ last'.kr = "KERN_FAILURE"

\* C16, as stated: a watched volume whose error count is >= 5 is skipped by
\* the reboot-lock scan: it never makes _kextmanager_lock_reboot return
\* busy, check_rebuild is not called for it, and if no other volume is
\* locked or has work pending the reboot lock is granted.
C16_FailingVolumeSkipped == [][RebootWalk => SkipsAll(Failing)]_vars

\* C16: the same of a watched volume whose error count is >= 5 and which
\* is not locked.
C16_FailingUnlockedSkipped == [][RebootWalk => SkipsAll(FailingUnlocked)]_vars

\* the scan skipped a volume that had been given up and the reboot lock was
\* granted
C16_GrantedPastFailing ==
    /\ RebootLockGranted
    /\ last.skipped # {}
    /\ \A v \in last.skipped : sFsysWatchDict[v].errcount >= GIVEUPTHRESH

(* ---- C17 ---- *)
\* the last request for the reboot lock was answered busy and had launched
\* a rebuild of volume v
LaunchBlocks(v) ==
    /\ RebootLockAsked
    /\ last.result = "EBUSY"
    /\ v \in last.launched

\* C17, as stated: when the rebuild of a watched volume fails at every
\* attempt, in whichever way (the builder cannot be launched, it unlocks
\* with a non-zero status other than EX_TEMPFAIL, it dies holding the lock or
\* before taking it), then under repeated requests for the reboot lock the
\* volume's error count reaches 5 (unless the reboot lock is given before),
\* and from then on the volume, left unlocked, does not make
\* _kextmanager_lock_reboot return busy.
C17_FailingVolumeGivenUp ==
    /\ \A v \in Vols :
           LaunchBlocks(v) ~> \/ sFsysWatchDict[v].errcount >= GIVEUPTHRESH
                              \/ sRebootLock # NULL
    /\ [][RebootWalk => SkipsAll(FailingUnlocked)]_vars

\* a request for the reboot lock is answered busy for a rebuild that its
\* scan launched of a watched volume, the volume's error count still 0
C17_RelaunchedUncounted ==
    \E v \in Vols :
        /\ LaunchBlocks(v)
        /\ v \in last.scanned
        /\ sFsysWatchDict[v].errcount = 0

(* ---- C18 ---- *)
\* _kextmanager_lock_volume has just answered a root client while the reboot
\* lock was held
VolumeLockAskedWhileRebooting ==
    /\ last.op = "lock_volume"
    /\ last.result # "EPERM"
    /\ last.reboot # NULL

\* C18: the reboot lock and a volume's lock are never held at the same time:
\* while the reboot lock is held every _kextmanager_lock_volume request (of
\* a root client; others get EPERM) is answered busy and locks nothing, and
\* the reboot lock is never granted while a watched volume is locked.
C18_RebootLockExcludesVolumeLocks ==
    /\ sRebootLock # NULL => Locked(sFsysWatchDict) = {}
    /\ VolumeLockAskedWhileRebooting =>
           /\ last.kr = "KERN_SUCCESS"
           /\ last.result = "EBUSY"
           /\ sFsysWatchDict[last.vol] = last.w0
    /\ RebootLockGranted => last.locked = {}

\* a request for the lock of a watched volume was answered busy because the
\* reboot lock is held
C18_DeniedWhileRebooting ==
    /\ VolumeLockAskedWhileRebooting
    /\ last.result = "EBUSY"
    /\ last.w0.watched
    /\ sRebootLock # NULL

(* ---- C19 ---- *)
\* _kextmanager_unlock_volume has just run for a client whose port is the
\* one that holds the lock of the volume it named
UnlockByHolder ==
    /\ last.w0.watched
    /\ last.w0.lock # NULL
    /\ last.w0.lock = last.client

\* C19: _kextmanager_unlock_volume releases a volume's lock only when the
\* calling client's port is the one that holds it; an unlock from another
\* port, or of a volume that is not locked or not known, fails (KERN_FAILURE;
\* a client that is not root is turned away before that) and leaves the
\* lock's holder, the error count and the owners flag as they were.
C19_UnlockOnlyByHolder ==
    last.op = "unlock_volume" =>
        /\ sFsysWatchDict[last.vol].lock # last.w0.lock => UnlockByHolder
        /\ ~UnlockByHolder =>
               /\ last.kr = "KERN_FAILURE" \/ last.result = "EPERM"
               /\ last.result # "0"
               /\ sFsysWatchDict[last.vol] = last.w0

\* an unlock from a port other than the holder's of a locked volume was
\* refused and the volume is as it was
C19_StrangerRefused ==
    /\ last.op = "unlock_volume"
    /\ last.w0.lock # NULL
    /\ last.w0.lock # last.client
    /\ last.result = "refused"
    /\ sFsysWatchDict[last.vol] = last.w0

(* ---- C20 ---- *)
\* _kextmanager_unlock_volume has just released the lock
Unlocked ==
    /\ last.op = "unlock_volume"
    /\ last.kr = "KERN_SUCCESS"
    /\ last.result = "0"

\* C20: on a successful _kextmanager_unlock_volume the volume's error count
\* is unchanged for exit status EX_TEMPFAIL, one more for any other non-zero
\* exit status, and zero for exit status zero.
C20_UnlockErrcount ==
    Unlocked =>
        LET before == last.w0.errcount
            after == sFsysWatchDict[last.vol].errcount
        IN  /\ last.status = EX_TEMPFAIL => after = before
            /\ last.status \notin {0, EX_TEMPFAIL} => after = before + 1
            /\ last.status = 0 => after = 0

\* a builder that had failed before unlocked with EX_TEMPFAIL and the error
\* count is what it was
C20_TempFailKeepsCount ==
    /\ Unlocked
    /\ last.status = EX_TEMPFAIL
    /\ last.w0.errcount > 0
    /\ sFsysWatchDict[last.vol].errcount = last.w0.errcount

(* ---- C21 ---- *)
\* C21, as stated: when serving a request for a volume's lock enabled owners
\* on the volume (disableOwners set), every step by which the lock stops
\* being held (unlock by the holder, lock_died for the holder, discard of the
\* lock) switches owners off again and clears the flag: disableOwners is
\* never left set on a volume that is watched and not locked.
C21_OwnersRevertedOnRelease ==
    \A v \in Vols :
        (sFsysWatchDict[v].watched /\ sFsysWatchDict[v].lock = NULL)
            => ~sFsysWatchDict[v].disableOwners

\* the holder of the lock of a volume whose owners had been enabled died;
\* the lock is gone and disableOwners is still set
C21_CrashLeftOwnersOn ==
    /\ HolderOfVolumeDied
    /\ last.w0.disableOwners
    /\ sFsysWatchDict[last.vol].watched
    /\ sFsysWatchDict[last.vol].lock = NULL
    /\ sFsysWatchDict[last.vol].disableOwners

(* ---- C22 ---- *)
\* this step is is_dadisk_busy answering diskarb about disk v
AskedIfBusy(v) ==
    /\ last'.op = "is_dadisk_busy"
    /\ last'.vol = v

\* the volume's lock is held, or check_rebuild, run by this call, launches
\* a rebuild
LockedOrLaunches(v) ==
    \/ sFsysWatchDict[v].lock # NULL
    \/ v \in last'.launched

\* what is_dadisk_busy answers about disk v and does to its entry
DissentsIffLockedOrLaunches(v) ==
    LET w == sFsysWatchDict[v]
    IN  /\ last'.result = "busy" => w.watched /\ LockedOrLaunches(v)
        /\ (w.watched /\ LockedOrLaunches(v))
               => last'.result \in {"busy", "nodesc", "trouble"}
        /\ (w.watched /\ w.lock # NULL) => sFsysWatchDict'[v] = w
        /\ ~w.watched => /\ last'.result \in {"none", "nodesc"}
                         /\ sFsysWatchDict'[v] = w

CheckedSource ==
    /\ pc = "needsUpdate"
    /\ src[trace.checked.path].exists

\* the bootstamp is missing, or its modification time is not the source's,
\* second and nanosecond
MtimeDiffers(tsb, rsb) ==
    \/ ~tsb.exists
    \/ tsb.sec # rsb.sec
    \/ tsb.nsec # rsb.nsec

\* C23, as stated: needsUpdate reports a cached path whose source exists as
\* stale if and only if the bootstamp is missing or its modification time
\* differs from the source's in its seconds or in its nanoseconds.
C23_StaleIffMtimeDiffers ==
    CheckedSource =>
        (trace.checked.ood <=>
            MtimeDiffers(stamp[trace.checked.path], src[trace.checked.path]))

\* a bootstamp of the source's second and of other nanoseconds was found
\* not stale
C23_NanosecondsIgnored ==
    /\ CheckedSource
    /\ stamp[trace.checked.path].exists
    /\ stamp[trace.checked.path].sec = src[trace.checked.path].sec
    /\ stamp[trace.checked.path].nsec # src[trace.checked.path].nsec
    /\ ~trace.checked.ood

(* ---- C24 ---- *)
\* path p is there and needsUpdate finds it stale on its own account
StaleSource(p) ==
    /\ src[p].exists
    /\ needsUpdate(src[p], stamp[p], FALSE).ood

\* what needUpdates reports if only the paths that are there count
StaleOfSources ==
    [any |-> \E p \in CPaths : StaleSource(p),
     rps |-> \E p \in RpsIdx : StaleSource(p),
     booters |-> StaleSource(EfiPath),
     misc |-> StaleSource(LabelPath)]

\* C24, as stated: in needUpdates a cached path whose source is missing is
\* never treated as stale; the rps, booters, misc and any flags are set by
\* the paths that are there and stale, and by nothing else.
C24_MissingSourceNeverStale ==
    pc = "needUpdates" => trace.assessed = StaleOfSources

\* misc was reported stale for a label whose source is missing, after a
\* stale booter
C24_MissingLabelReportedStale ==
    /\ pc = "needUpdates"
    /\ ~src[LabelPath].exists
    /\ StaleSource(EfiPath)
    /\ trace.assessed.misc

(* ---- C25 ---- *)
\* the first run has returned 0 having written the bootstamps
FirstRunStamped ==
    /\ trace.run = 1
    /\ pc = "done"
    /\ trace.applied
    /\ rval = 0

\* the second run is past needUpdates: in the helper loop or after it, or
\* it returned 0 for nothing was stale
SecondAssessed ==
    /\ trace.run = 2
    /\ pc # "updateBoots"
    /\ trace.looped \/ rval = 0

\* the second run found path p's category stale
ReportedStale(p) ==
    IF p = EfiPath THEN up.doBooters
    ELSE IF p = LabelPath THEN up.doMisc
    ELSE up.doRPS

\* C25, as stated: every bootstamp written by applyStamps after a successful
\* update carries the mtime that needUpdates captured of the source earlier
\* in the run, never one read again at commit time; so a source written
\* between the assessment and the commit is reported stale by the next
\* needUpdates.
C25_StampIsAssessedMtime ==
    /\ FirstRunStamped =>
           \A p \in CPaths :
               /\ stamp[p] = StampOf(tstamps[p])
               /\ p \notin trace.touched => tstamps[p] = Captured(src[p])
    /\ SecondAssessed => \A p \in trace.touched : ReportedStale(p)

\* a source was written between assessment and commit, and the second run
\* found nothing stale
C25_TouchedSourceMissed ==
    /\ SecondAssessed
    /\ trace.touched # {}
    /\ pc = "done"
    /\ rval = 0
    /\ ~up.doRPS /\ ~up.doBooters /\ ~up.doMisc

(* ---- C26 ---- *)
\* the second run, no source having changed, is past its first step
SecondRunUntouched ==
    /\ trace.run = 2
    /\ trace.touched = {}
    /\ pc # "updateBoots"

\* the run returned from needUpdates: it did not fail before or in it
Assessed == trace.looped \/ rval = 0

\* C26, as stated: after a run that succeeded and wrote the bootstamps, a
\* second non-forced run with no source changed finds no category stale,
\* touches no helper partition and writes no bootstamp.
C26_SecondRunIdle ==
    SecondRunUntouched =>
        /\ ~up.doRPS /\ ~up.doBooters /\ ~up.doMisc
        /\ ~trace.looped
        /\ ~trace.applied
        /\ pc = "done"

\* the second run, no source changed, found the RPS paths stale and went
\* into the helper loop
C26_SecondRunUpdates ==
    /\ SecondRunUntouched
    /\ Assessed
    /\ up.doRPS
    /\ trace.looped
    /\ ~src[1].exists

(* ---- C27 ---- *)
\* check_mkext has returned for a descriptor that names an mkext, with
\* paths that fit
MkextChecked ==
    /\ pc = "check_mkext"
    /\ trace.mkext.has
    /\ trace.mkext.fits

\* the mkext's st_mtime is the Extensions directory's plus one second
OneSecondYounger ==
    /\ trace.mkext.exts.exists
    /\ trace.mkext.sb.exists
    /\ trace.mkext.sb.sec = trace.mkext.exts.sec + 1

Accepted ==
    /\ pc = "parseDict"
    /\ trace.caches

\* every key of the top level and of the three path dictionaries is one
\* that parseDict looks up
PathKeysRecognized ==
    /\ trace.bcDict.top \subseteq TopKeys
    /\ trace.bcDict.pre \subseteq PreKeys
    /\ trace.bcDict.booters \subseteq BooterKeys
    /\ trace.bcDict.post \subseteq PostKeys

\* C28, as stated: parseDict accepts a descriptor only if every key in
\* every dictionary of it (top level, PreBootPaths, BooterPaths,
\* PostBootPaths and the MKext dictionary) is a recognized key.
C28_AcceptsOnlyRecognizedKeys ==
    Accepted => (PathKeysRecognized /\ trace.bcDict.mk \subseteq MkKeys)

\* a descriptor with an unknown key in its MKext dictionary was accepted
C28_UnknownMkextKeyAccepted ==
    /\ Accepted
    /\ Unknown \in trace.bcDict.mk

(* ---- C29 ---- *)
\* sdeepmkdir has returned, and nobody else wrote to the path meanwhile
DeepOver ==
    /\ trace.deep.at = "done"
    /\ ~trace.deep.raced

\* at the call the path, or a component of it that existed, was not a
\* directory
NonDirectoryOnPath == \E j \in Levels : trace.deep.kinds0[j] = "file"

\* the call failed with ENOTDIR, returned or left in errno
FailedNotDir ==
    \/ trace.deep.ret = "ENOTDIR"
    \/ trace.deep.ret = "-1" /\ trace.deep.errno = "ENOTDIR"

\* C29, as stated: sdeepmkdir fails with ENOTDIR whenever the path or an
\* existing component of it is a non-directory, and returns success only if
\* the path is a directory after the call.
C29_NotDirFailsAndSuccessIsDir ==
    DeepOver =>
        /\ NonDirectoryOnPath => (FailedNotDir \/ trace.deep.errno = "EACCES")
        /\ trace.deep.ret = "ok" => trace.deep.kinds[0] = "dir"

\* sdeepmkdir returned 0 for a path that is a file
C29_FileTakenForDirectory ==
    /\ DeepOver
    /\ trace.deep.ret = "ok"
    /\ trace.deep.kinds0[0] = "file"
    /\ trace.deep.kinds[0] = "file"

(* ---- C30 ---- *)
\* the primitive has returned
PrimitiveOver == trace.fds.at = "done"

\* every descriptor the primitive opened was closed, and once only
ClosedOnce ==
    /\ trace.fds.dirCloses = (IF trace.fds.dirOpened THEN 1 ELSE 0)
    /\ trace.fds.saveCloses = (IF trace.fds.saveOpened THEN 1 ELSE 0)

\* C30, as stated: after any SafePath primitive returns, on success and on
\* every error path, the working directory is the one before the call and
\* the parent-directory fd and the saved-directory fd have been closed
\* exactly once.
C30_CwdRestoredFdsClosedOnce ==
    PrimitiveOver => (cwd = trace.fds.cwd0 /\ ClosedOnce)

\* fchdir failed in schdirparent and the saved-directory fd was closed
\* three times
C30_SavedirClosedThrice ==
    /\ PrimitiveOver
    /\ trace.fds.failed = "fchdir"
    /\ trace.fds.saveCloses > 2
    /\ cwd = trace.fds.cwd0

(* ---- C31 ---- *)
LockServices == {"lock_reboot", "lock_volume", "unlock_volume"}

\* the handler of this step is a lock service called by a client that is
\* not root
NonRootRequest ==
    /\ last'.op \in LockServices
    /\ last'.uid # 0

\* no lock, error count or owners flag is touched, and a lock request is
\* answered EPERM
TurnedAway ==
    /\ sRebootLock' = sRebootLock
    /\ sFsysWatchDict' = sFsysWatchDict
    /\ last'.op # "unlock_volume" =>
           (last'.kr = "KERN_SUCCESS" /\ last'.result = "EPERM")
    /\ last'.result # "0"

\* C31: a lock_reboot, lock_volume or unlock_volume request from a client
\* whose UID is not 0 changes no lock (reboot lock, volume locks), no error
\* count and no owners flag; the lock requests report EPERM.
C31_NonRootChangesNothing == [][NonRootRequest => TurnedAway]_vars

\* a client that is not root asked for the lock of a watched, unlocked
\* volume, was answered EPERM, and the volume is still unlocked
C31_NonRootLockRefused ==
    /\ last.op = "lock_volume"
    /\ last.uid # 0
    /\ last.result = "EPERM"
    /\ last.w0.watched
    /\ last.w0.lock = NULL
    /\ sRebootLock = NULL
    /\ sFsysWatchDict[last.vol].lock = NULL

(* ---- C32 ---- *)
\* this step destroys the watchedVol of volume v: its entry goes, or
\* vol_appeared puts a new watchedVol in its place
Destroys(v) ==
    /\ sFsysWatchDict[v].watched
    /\ last'.op \in {"vol_disappeared", "vol_appeared", "kextd_stop_volwatch"}
    /\ sFsysWatchDict'[v] # sFsysWatchDict[v]
    /\ sFsysWatchDict'[v] #
         [sFsysWatchDict[v] EXCEPT !.delayer = {t - 1 : t \in @}]

\* the step leaves no timer of the destroyed watchedVol in the run loop
TimerInvalidated(v) ==
    sFsysWatchDict[v].delayer # {} => trace'.orphans = trace.orphans

\* check_now is called for a watchedVol that has been destroyed
FiresForDestroyed ==
    /\ last'.op = "check_now"
    /\ last'.result = "destroyed"

\* C32, as stated: whenever a watchedVol is destroyed, on unmount and on
\* kextd_stop_volwatch, its pending settle timer is invalidated before the
\* record is released, and no check_now callback fires for a destroyed
\* watchedVol.
C32_TimerInvalidatedOnDestroy ==
    [][/\ \A v \in Vols : Destroys(v) => TimerInvalidated(v)
       /\ ~FiresForDestroyed]_vars

\* check_now has been called for a watchedVol that kextd_stop_volwatch
\* destroyed
C32_CheckNowAfterStop ==
    /\ last.op = "check_now"
    /\ last.result = "destroyed"
    /\ ~sFsysWatchDict[last.vol].watched


(* ---- C33 ---- *)
\* the helpers this run has mounted and not unmounted
MountedHelpers == trace.boot.mounted

\* helper i is about to be mounted, or the loop is over
BetweenHelpers == trace.boot.at \in {"mountBoot", "finish", "done"}

\* C33, as stated: at most one helper partition is mounted at any time;
\* when the next helper is about to be mounted the previous one is
\* unmounted and its scope descriptor closed; and a helper's scope
\* descriptor is closed exactly once
C33_OneHelperFdClosedOnce ==
    /\ Cardinality(MountedHelpers) <= 1
    /\ BetweenHelpers => /\ MountedHelpers = {}
                         /\ trace.boot.fd # "open"
    /\ trace.boot.closes <= 1
    /\ trace.boot.at = "done" /\ trace.boot.fd # "none"
          => trace.boot.closes = 1

\* every helper was mounted, updated and unmounted without an error, and
\* the last helper's descriptor has been closed twice
C33_ClosedTwiceOnSuccess ==
    /\ trace.boot.at = "done"
    /\ trace.boot.n > 0
    /\ trace.boot.updated = trace.boot.n
    /\ MountedHelpers = {}
    /\ trace.boot.closes = 2


(* ---- C34 ---- *)
\* every path of the RPS array is in the staged directory, and new
AllRPSWritten ==
    /\ trace.staged \in Slots
    /\ helper.rps[trace.staged].exists
    /\ \A j \in RpsIdx : helper.rps[trace.staged].files[j] = "new"

\* neither the booters nor the RPS directories have been activated
NothingActivated ==
    /\ ~trace.renamed
    /\ helper.blessed = pre.blessed
    /\ helper.efi = pre.efi

\* C34, as stated: ucopyRPS returns 0 only if every RPS path has been
\* written into the staged directory, and a helper whose ucopyRPS failed
\* sees no booter or RPS activation.
C34_UcopyRPSAllOrFail ==
    /\ (trace.stagedOK /\ BeforeActivateRPS) => AllRPSWritten
    /\ trace.failedIn = "ucopyRPS" => NothingActivated

\* ucopyRPS has returned 0, activateRPS is next, and the staged directory
\* has no Boot.plist or part of one
C34_StagedWithoutBootConfig ==
    /\ trace.stagedOK
    /\ pc = "activateRPS"
    /\ trace.staged \in Slots
    /\ helper.rps[trace.staged].files[BootConfigIdx] \in {"none", "part"}
    /\ \A j \in RpsIdx \ {BootConfigIdx} :
          helper.rps[trace.staged].files[j] = "new"


(* ---- C35 ---- *)
\* the positions of updateBoots at and after the named step, up to the end
\* of activateMisc
FromNukeLabels == {"nukeLabels", "ucopyBooters", "activateBooters",
                   "activateRPS", "activateRPS_fsync", "activateMisc"}
FromUcopyBooters == FromNukeLabels \ {"nukeLabels"}
FromActivateRPS == {"activateRPS", "activateRPS_fsync", "activateMisc"}

\* revertState, nukeFallbacks and unmountBoot of a helper that was mounted
BootfailTail == {"revertState", "nukeFallbacks", "unmountBoot"}

\* ucopyMisc was called and did not leave the label's .new file
MiscNotStaged ==
    /\ up.doMisc
    /\ src[LabelPath].exists
    /\ ~helper.labelNew

\* the steps up to activateMisc, each starting only after the steps before
\* it succeeded, the result of ucopyMisc aside
StagedThenActivated ==
    /\ (pc \in FromNukeLabels /\ up.doRPS) => trace.stagedOK
    /\ pc \in FromUcopyBooters => helper.label = "none"
    /\ (pc = "activateBooters") => helper.efi = "new"
    /\ (pc \in FromActivateRPS /\ up.doBooters)
          => helper.efi = "new" /\ helper.blessed = "new"
    /\ trace.renamed => trace.stagedOK
    /\ (pc = "activateMisc" /\ up.doRPS)
          => Current(helper.rps) # Current(pre.rps)
    /\ (trace.renamed /\ up.doBooters /\ trace.failedIn = "none")
          => helper.blessed = "new"

\* C35, as stated: the steps of one helper update occur in the order RPS
\* staged, misc staged, labels removed, booters copied, booters blessed,
\* RPS renamed, misc renamed, fallbacks removed, unmount, no step starting
\* before the previous one has succeeded; the fallbacks are removed only
\* after every activation step.
C35_EachStepAfterSuccess ==
    /\ StagedThenActivated
    /\ pc \in FromNukeLabels => ~MiscNotStaged
    /\ (pc \in BootfailTail \ {"revertState"} /\ up.curBoot) => trace.ok

\* C35, amended: the steps occur in that order, each step up to
\* activateMisc starting only after the steps before it succeeded, except
\* that the result of ucopyMisc is ignored; the booters are blessed before
\* the RPS rename; revertState, nukeFallbacks and unmountBoot are reached
\* either after every activation step succeeded or after the step that
\* failed.
C35_StepsInOrder ==
    /\ StagedThenActivated
    /\ (pc \in BootfailTail /\ up.curBoot)
          => \/ trace.ok /\ trace.failedIn = "none"
             \/ ~trace.ok /\ trace.failedIn # "none"
    /\ (pc \in BootfailTail /\ trace.ok /\ up.doRPS) => trace.stagedOK
    /\ (pc = "revertState" /\ trace.ok /\ up.doBooters)
          => helper.blessed = "new"

\* a helper whose RPS content and booters were stale has gone through every
\* step: staged, booters blessed, RPS renamed, and nukeFallbacks is next
C35_AllStepsDone ==
    /\ pc = "nukeFallbacks"
    /\ trace.ok
    /\ up.doRPS /\ up.doBooters /\ up.doMisc
    /\ trace.stagedOK
    /\ trace.renamed
    /\ helper.blessed = "new"
    /\ helper.efiOld # "none"


(* ---- C36 ---- *)
\* lock_died was called for a volume's lock with a port that was not the
\* port of the lock the volume then had
DiedNotHolder ==
    /\ last.op = "lock_died"
    /\ last.vol \in Vols
    /\ last.w0.watched
    /\ last.w0.lock # NULL
    /\ last.client # last.w0.lock

\* C36, as stated: lock_died clears a volume's lock only when the port
\* that became invalid is the recorded holder's; the late invalidation of
\* the port of a client that has unlocked never releases the lock another
\* client has taken since.
C36_OnlyHolderDeathClears ==
    DiedNotHolder => sFsysWatchDict[last.vol].lock = last.w0.lock

\* port2 holds the lock on a volume, the port of another client becomes
\* invalid, and lock_died has released port2's lock
C36_LateDeathReleasedOther ==
    /\ DiedNotHolder
    /\ last.w0.lock = "port2"
    /\ last.client = "port1"
    /\ sFsysWatchDict[last.vol].watched
    /\ sFsysWatchDict[last.vol].lock = NULL


(* ---- C37 ---- *)
\* this step is a lock request for v that finds v locked
LockOnLocked(v) ==
    /\ last'.op = "lock_volume"
    /\ last'.vol = v
    /\ last'.uid = 0
    /\ sRebootLock = NULL
    /\ sFsysWatchDict[v].watched
    /\ sFsysWatchDict[v].lock # NULL

\* this step takes the lock of v from its holder, and v is watched after it
Released(v) ==
    /\ sFsysWatchDict[v].lock # NULL
    /\ sFsysWatchDict'[v].watched
    /\ sFsysWatchDict'[v].lock # sFsysWatchDict[v].lock

\* the holder itself gives the lock up, or its port has become invalid
ByHolder(v) ==
    /\ last'.op \in {"unlock_volume", "lock_died"}
    /\ last'.vol = v
    /\ last'.client = sFsysWatchDict[v].lock
    /\ sFsysWatchDict'[v].lock = NULL

\* C37, as stated: a lock request on a locked volume is answered busy and
\* leaves the holder unchanged, and the lock of a watched volume leaves its
\* holder only through the holder, so that no second rebuilder is granted
\* the lock while the first still holds it.
C37_OneHolderAtATime ==
    [][\A v \in Vols :
         /\ LockOnLocked(v) => /\ last'.result = "EBUSY"
                               /\ sFsysWatchDict'[v].lock =
                                     sFsysWatchDict[v].lock
         /\ Released(v) => ByHolder(v)]_vars

\* port1 held the lock of a volume, lock_died was called with port2, and
\* the volume is free for the next lock request
C37_HolderLostLock ==
    /\ DiedNotHolder
    /\ last.w0.lock = "port1"
    /\ last.client = "port2"
    /\ sRebootLock = NULL
    /\ sFsysWatchDict[last.vol].watched
    /\ sFsysWatchDict[last.vol].lock = NULL


(* ---- C38 ---- *)
\* the last event was a callback for a watchedVol that vol_disappeared had
\* destroyed: a queued notification or a late lock invalidation
LateEvent ==
    /\ last.op \in {"lock_died", "fsys_changed"}
    /\ last.result = "late"

Puts == trace.vlock.puts

\* C39: updateBoots writes helpers and bootstamps only while it holds the
\* volume lock; for a stale mkext it gives the lock up with EX_TEMPFAIL,
\* runs the builder without the lock and takes the lock again before the
\* helper loop; without the lock no helper is mounted; and at the end it
\* calls putVolumeForPath with the run's final status.
C39_UpdatesUnderLock ==
    /\ ~trace.vlock.unlocked
    /\ trace.vlock.at \in {"loop", "stamps"} => trace.vlock.held
    /\ trace.vlock.built # "locked"
    /\ trace.vlock.built = "unlocked"
          => Len(Puts) >= 1 /\ Puts[1] = EX_TEMPFAIL
    /\ (~trace.vlock.held /\ trace.vlock.at # "done")
          => trace.vlock.at \in {"idle", "rebuild_mkext", "finish"}
    /\ trace.vlock.at = "done"
          => /\ ~trace.vlock.held
             /\ Puts[Len(Puts)] = trace.vlock.rval
             /\ (trace.vlock.i > 0 => Len(Puts) \in {1, 2})

\* a run that found the mkext stale: lock given up with EX_TEMPFAIL, mkext
\* rebuilt without the lock, lock taken again, every helper updated, the
\* bootstamps written, the lock released with status 0
C39_RebuiltThenUpdated ==
    /\ trace.vlock.at = "done"
    /\ Puts = <<EX_TEMPFAIL, 0>>
    /\ trace.vlock.built = "unlocked"
    /\ trace.vlock.n > 0
    /\ trace.vlock.updated = trace.vlock.n
    /\ trace.vlock.stamped
    /\ trace.vlock.rval = 0


(* ---- C40: what one call of check_rebuild launches ---- *)
\* the call has returned
Rebuilt == trace.cr.at = "returned"

\* the timer of the volume is gone, at most one child was forked, and the
\* result says whether one was
CancelsAndLaunchesOne ==
    /\ sFsysWatchDict["disk0s2"].delayer = {}
    /\ Cardinality(trace.cr.children) <= 1
    /\ trace.cr.launched <=> trace.cr.children # {}

\* a stale mkext: nothing but the mkext builder, and errcount counts a
\* builder that could not be launched
MkextFirst ==
    trace.cr.mkext =>
        /\ trace.cr.children \subseteq {"kextcache -m"}
        /\ trace.cr.children = {} <=> ~trace.cr.forks
        /\ sFsysWatchDict["disk0s2"].errcount =
               trace.cr.vol.errcount + (IF trace.cr.forks THEN 0 ELSE 1)

\* the volume has helper partitions on GPT
HelpersOnGPT == trace.cr.binfo /\ trace.cr.hasBoots /\ trace.cr.isGPT

=============================================================================
